---- MODULE Spec2Model ----
(***************************************************************************)
(* Model of the cadastral download tools (dnogares/Herramientas_tasadores). *)
(*                                                                         *)
(*   SpecNorm     reference normalisation (limpiar_referencia, 3 variants)  *)
(*   SpecSafeGet  the HTTP retry wrapper safe_get / _safe_get               *)
(*   SpecCoord    coordinate resolution in its three implementations, and   *)
(*                the status of the whole call in two of them               *)
(*   SpecGeom     the geometry fetches (GetParcel / GetBuilding)            *)
(*   SpecAfect    the overlay of a parcel with the layers                   *)
(*   SpecWms      the map image requests of one run                         *)
(*   Spec         CatastroCompleteDownloader.procesar_lote and the          *)
(*                per-reference pipeline descargar_todo_completo            *)
(*   SpecPar      two calls of descargar_todo_completo side by side         *)
(*   SpecOrto     LocalLayersManager.generar_ortofotos_multi_escala         *)
(*   SpecHttp     the safe_get calls and request attempts of one run        *)
(*                                                                         *)
(* Strings are sequences of one-character strings.  An HTTP exchange is a   *)
(* record [exc, status, body]: exc = TRUE stands for a                      *)
(* requests.exceptions.RequestException raised by the transport.            *)
(***************************************************************************)
EXTENDS Integers, Sequences, FiniteSets, TLC

VARIABLES
    \* --- SpecNorm
    n_pc, n_impl, n_texto, n_limpio, n_relimpio,
    \* --- SpecSafeGet
    sg_pc, sg_impl, sg_env, sg_max, sg_out,
    \* --- SpecCoord
    c_pc, c_impl, c_geopandas, c_proj_ok, c_gml, c_json, c_xml, c_out,
    \* --- SpecGeom
    g_pc, g_fn, g_ref, g_geopandas, g_env, g_cupo, g_out,
    \* --- SpecAfect
    a_pc, a_impl, a_lee, a_parcela, a_capas, a_cupo, a_out,
    \* --- SpecWms
    w_pc, w_impl, w_coords, w_bbox, w_pendientes, w_peticiones, w_descargadas,
    \* --- Spec, descargar_pdf_sigpac: the coords local of its last call
    coords_sigpac,
    \* --- SpecPar (two calls of descargar_todo_completo side by side)
    p_refs, p_pc, p_disco, p_escritos, p_leidos,
    \* --- SpecOrto (LocalLayersManager.generar_ortofotos_multi_escala)
    o_pc, o_ref, o_coords, o_geopandas, o_pendientes, o_disco, o_ortophotos,
    \* --- SpecHttp (the requests of one run of descargar_todo_completo)
    k_pc, k_geopandas, k_archivo, k_coords, k_pendientes, k_llamadas, k_intentos,
    \* --- Spec (procesar_lote / descargar_todo_completo)
    pc, referencias, referencia, GEOPANDAS_AVAILABLE, disco, escritos,
    archivo_parcela_gml, coords, capas_pendientes, capas_descargadas,
    servicios_pendientes, afectaciones_detectadas, resultados, zip_path,
    retorno, lote

norm_vars  == <<n_pc, n_impl, n_texto, n_limpio, n_relimpio>>
sg_vars    == <<sg_pc, sg_impl, sg_env, sg_max, sg_out>>
coord_vars == <<c_pc, c_impl, c_geopandas, c_proj_ok, c_gml, c_json, c_xml, c_out>>
geom_vars  == <<g_pc, g_fn, g_ref, g_geopandas, g_env, g_cupo, g_out>>
\* procesar_lote: its position, the list consumed so far, its result map and
\* the directories under output_dir
bucle_vars == <<referencias, referencia, GEOPANDAS_AVAILABLE, lote>>
\* the loops inside descargar_capas_multiples and analizar_afectaciones
capas_vars == <<capas_pendientes, capas_descargadas>>
afect_vars == <<servicios_pendientes, afectaciones_detectadas>>
\* descargar_todo_completo: its locals
run_vars   == <<archivo_parcela_gml, coords, resultados, zip_path, retorno>>
lote_vars  == <<pc, bucle_vars, disco, escritos, capas_vars, afect_vars, run_vars>>
overlay_vars == <<a_pc, a_impl, a_lee, a_parcela, a_capas, a_cupo, a_out>>
wms_vars == <<w_pc, w_impl, w_coords, w_bbox, w_pendientes, w_peticiones, w_descargadas>>
sig_vars == <<coords_sigpac>>
par_vars == <<p_refs, p_pc, p_disco, p_escritos, p_leidos>>
orto_vars == <<o_pc, o_ref, o_coords, o_geopandas, o_pendientes, o_disco, o_ortophotos>>
http_vars == <<k_pc, k_geopandas, k_archivo, k_coords, k_pendientes, k_llamadas, k_intentos>>
vars == <<norm_vars, sg_vars, coord_vars, geom_vars, overlay_vars, wms_vars, sig_vars, par_vars, orto_vars, http_vars, lote_vars>>

\* what the actions of one specification leave alone: the variables of the others
no_norm_vars  == <<sg_vars, coord_vars, geom_vars, overlay_vars, wms_vars, sig_vars, par_vars, orto_vars, http_vars, lote_vars>>
no_sg_vars    == <<norm_vars, coord_vars, geom_vars, overlay_vars, wms_vars, sig_vars, par_vars, orto_vars, http_vars, lote_vars>>
no_coord_vars == <<norm_vars, sg_vars, geom_vars, overlay_vars, wms_vars, sig_vars, par_vars, orto_vars, http_vars, lote_vars>>
no_geom_vars  == <<norm_vars, sg_vars, coord_vars, overlay_vars, wms_vars, sig_vars, par_vars, orto_vars, http_vars, lote_vars>>
no_overlay_vars == <<norm_vars, sg_vars, coord_vars, geom_vars, wms_vars, sig_vars, par_vars, orto_vars, http_vars, lote_vars>>
no_wms_vars == <<norm_vars, sg_vars, coord_vars, geom_vars, overlay_vars, sig_vars, par_vars, orto_vars, http_vars, lote_vars>>
no_sig_vars == <<norm_vars, sg_vars, coord_vars, geom_vars, overlay_vars, wms_vars, par_vars, orto_vars, http_vars, lote_vars>>
no_par_vars == <<norm_vars, sg_vars, coord_vars, geom_vars, overlay_vars, wms_vars, sig_vars, orto_vars, http_vars, lote_vars>>
no_orto_vars == <<norm_vars, sg_vars, coord_vars, geom_vars, overlay_vars, wms_vars, sig_vars, par_vars, http_vars, lote_vars>>
no_http_vars == <<norm_vars, sg_vars, coord_vars, geom_vars, overlay_vars, wms_vars, sig_vars, par_vars, orto_vars, lote_vars>>
no_lote_vars  == <<norm_vars, sg_vars, coord_vars, geom_vars, overlay_vars, wms_vars, sig_vars, par_vars, orto_vars, http_vars>>
\* the variables outside a run of descargar_todo_completo
ajenas_vars == <<norm_vars, sg_vars, coord_vars, geom_vars, overlay_vars, wms_vars, par_vars, orto_vars,
                 http_vars>>

(***************************************************************************)
(* Bounds of the model                                                     *)
(***************************************************************************)
MaxLen == 4          \* longest reference string normalised in SpecNorm
MaxRetriesBound == 2 \* largest max_retries argument tried in SpecSafeGet
MaxFallos == 3       \* most consecutive transport failures the network gives one call
MaxLote == 2         \* longest batch given to procesar_lote
MaxCapas == 2        \* most layer files under capas_dir in SpecAfect

(***************************************************************************)
(* Strings                                                                 *)
(***************************************************************************)
Chars == {" ", "\t", "a", "A", "1"}

\* str.strip() with no argument and str.isspace(): blank, tab, ...
IsSpace(ch) == ch \in {" ", "\t"}

IsLower(ch) == ch \in {"a"}

RECURSIVE SeqsUpTo(_)
SeqsUpTo(n) ==
    IF n = 0 THEN {<<>>}
    ELSE LET shorter == SeqsUpTo(n - 1)
         IN  shorter \cup {Append(s, ch) : s \in {t \in shorter : Len(t) = n - 1}, ch \in Chars}

\* ref.replace(' ', ''): every blank is removed, other whitespace stays
ReplaceBlank(s) == SelectSeq(s, LAMBDA ch : ch # " ")

RECURSIVE LStrip(_)
LStrip(s) == IF s # <<>> /\ IsSpace(Head(s)) THEN LStrip(Tail(s)) ELSE s

RECURSIVE RStrip(_)
RStrip(s) ==
    IF s # <<>> /\ IsSpace(s[Len(s)]) THEN RStrip(SubSeq(s, 1, Len(s) - 1)) ELSE s

\* str.strip()
Strip(s) == RStrip(LStrip(s))

UpperChar(ch) == IF ch = "a" THEN "A" ELSE ch

\* str.upper()
Upper(s) == [k \in 1..Len(s) |-> UpperChar(s[k])]

\* ref.replace(' ', '', 1): a replace that stops after the first blank
ReplaceFirstBlank(s) ==
    IF \E k \in 1..Len(s) : s[k] = " "
    THEN LET k == CHOOSE j \in 1..Len(s) : s[j] = " " /\ \A h \in 1..(j - 1) : s[h] # " "
         IN  SubSeq(s, 1, k - 1) \o SubSeq(s, k + 1, Len(s))
    ELSE s

limpiar_referencia_una_vez(ref) == Strip(ReplaceFirstBlank(ref))

\* CatastroCompleteDownloader.limpiar_referencia
limpiar_referencia(ref) == Strip(ReplaceBlank(ref))

\* CatastroDownloader.limpiar_referencia (catastro_engine)
Engine_limpiar_referencia(ref) == Upper(Strip(ReplaceBlank(ref)))

\* AnalizadorUrbanistico._limpiar_referencia: (ref or "") is ref for a string
Urban_limpiar_referencia(ref) ==
    LET r == IF ref = <<>> THEN <<>> ELSE ref IN Strip(ReplaceBlank(r))

Impls == {"complete", "engine", "urban"}

Limpiar(impl, ref) ==
    CASE impl = "complete" -> limpiar_referencia(ref)
      [] impl = "engine"   -> Engine_limpiar_referencia(ref)
      [] impl = "urban"    -> Urban_limpiar_referencia(ref)

(***************************************************************************)
(* HTTP exchanges and the retry wrapper                                    *)
(***************************************************************************)
DefaultMaxRetries == 2

\* what one request attempt meets: a transport exception ...
Exc == [exc |-> TRUE, status |-> 0, body |-> [nada |-> TRUE]]

\* ... or a response with a status and a body
Resp(status, body) == [exc |-> FALSE, status |-> status, body |-> body]

\* the network seen by one call: `fallos` transport failures in a row, then r
Red(fallos, r, n) == [j \in 1..n |-> IF j <= fallos THEN Exc ELSE r]

\* the network of one request in a run: it answers at once or never
RedesLote(resps) == {Red(f, r, DefaultMaxRetries + 1) : f \in {0, MaxFallos}, r \in resps}

\* a wrapper that also tries again when the status is not 200
RECURSIVE safe_get_reintenta_status(_, _, _)
safe_get_reintenta_status(env, max_retries, attempt) ==
    IF attempt >= max_retries + 1
    THEN [raised |-> TRUE, r |-> Exc, attempts |-> attempt]
    ELSE IF env[attempt + 1].exc \/ (env[attempt + 1].status # 200 /\ attempt < max_retries)
         THEN safe_get_reintenta_status(env, max_retries, attempt + 1)
         ELSE [raised |-> FALSE, r |-> env[attempt + 1], attempts |-> attempt + 1]

\* a wrapper that tries once more than max_retries + 1 times
RECURSIVE safe_get_un_intento_mas(_, _, _)
safe_get_un_intento_mas(env, max_retries, attempt) ==
    IF attempt >= max_retries + 2
    THEN [raised |-> TRUE, r |-> Exc, attempts |-> attempt]
    ELSE IF env[attempt + 1].exc
         THEN safe_get_un_intento_mas(env, max_retries, attempt + 1)
         ELSE [raised |-> FALSE, r |-> env[attempt + 1], attempts |-> attempt + 1]

\* safe_get: for attempt in range(max_retries + 1): try: return r
\*           except RequestException: last_exc = e; sleep -- then raise last_exc
RECURSIVE safe_get_loop(_, _, _)
safe_get_loop(env, max_retries, attempt) ==
    IF attempt >= max_retries + 1
    THEN [raised |-> TRUE, r |-> Exc, attempts |-> attempt]
    ELSE IF env[attempt + 1].exc
         THEN safe_get_loop(env, max_retries, attempt + 1)
         ELSE [raised |-> FALSE, r |-> env[attempt + 1], attempts |-> attempt + 1]

safe_get(env, max_retries) == safe_get_loop(env, max_retries, 0)

\* AnalizadorUrbanistico._safe_get: the same loop, GET only
RECURSIVE Urban_safe_get_loop(_, _, _)
Urban_safe_get_loop(env, max_retries, attempt) ==
    IF attempt >= max_retries + 1
    THEN [raised |-> TRUE, r |-> Exc, attempts |-> attempt]
    ELSE IF env[attempt + 1].exc
         THEN Urban_safe_get_loop(env, max_retries, attempt + 1)
         ELSE [raised |-> FALSE, r |-> env[attempt + 1], attempts |-> attempt + 1]

Urban_safe_get(env, max_retries) == Urban_safe_get_loop(env, max_retries, 0)

\* requests.get called directly (catastro_engine): one attempt, the exception
\* goes to the caller
requests_get(env) ==
    IF env[1].exc THEN [raised |-> TRUE, r |-> Exc, attempts |-> 1]
    ELSE [raised |-> FALSE, r |-> env[1], attempts |-> 1]

(***************************************************************************)
(* Response bodies and geometry documents                                  *)
(***************************************************************************)
\* Python's None
None == [none |-> TRUE]

\* a test that lets every value through
HayCoordenadas_siempre(c) == TRUE

\* `if coords:` before the map images (`if not coords: return` in the
\* engine): None and the empty dict are false
HayCoordenadas(c) == c # None /\ DOMAIN c # {}

\* float(text): "1" and "2" are numbers, anything else raises ValueError
IsFloat(t) == t \in {"1", "2"}
Float(t) == IF t = "1" THEN 1 ELSE 2

\* bodies of the JSON lookup Geo_RCToWGS84: r.json() raises when json = FALSE
JsonCoords == [geo |-> [xcen |-> "1", ycen |-> "2"]]
JsonDatos ==
    { JsonCoords,
      [geo |-> [xcen |-> "x", ycen |-> "2"]],
      [geo |-> [xcen |-> "1"]],
      [ldt |-> "x"] }
JsonBodies ==
    {[json |-> TRUE, data |-> d] : d \in JsonDatos} \cup {[json |-> FALSE, data |-> [ldt |-> "x"]]}
JsonResps ==
    {Resp(200, b) : b \in JsonBodies} \cup {Resp(404, [json |-> TRUE, data |-> JsonCoords])}

\* bodies of the XML lookup Consulta_RCCOOR: ET.fromstring raises when xml = FALSE
XmlCoords == [coord |-> [geo |-> [xcen |-> "2", ycen |-> "1"]]]
XmlDatos ==
    { XmlCoords,
      [coord |-> [geo |-> [xcen |-> "2", ycen |-> "x"]]],
      [coord |-> [geo |-> [xcen |-> "2"]]],
      [coord |-> [otro |-> "x"]],
      [otro |-> "x"] }
XmlBodies ==
    {[xml |-> TRUE, data |-> d] : d \in XmlDatos} \cup {[xml |-> FALSE, data |-> [otro |-> "x"]]}
XmlResps ==
    {Resp(200, b) : b \in XmlBodies} \cup {Resp(404, [xml |-> TRUE, data |-> XmlCoords])}

\* a parcel geometry document: the pos of cp:referencePoint and the first
\* gml:posList, each a list of tokens, either of them possibly absent
GmlDatos ==
    { [referencePoint |-> <<"1", "2">>, posList |-> <<"1", "1", "2", "2">>],
      [posList |-> <<"2", "2", "2", "1">>],
      [referencePoint |-> <<"1">>, posList |-> <<"1", "2">>],
      [referencePoint |-> <<"x", "2">>, posList |-> <<"1", "2">>],
      [posList |-> <<"1">>],
      [otro |-> "x"] }
GmlDocs ==
    {[xml |-> TRUE, data |-> d] : d \in GmlDatos} \cup {[xml |-> FALSE, data |-> [otro |-> "x"]]}

\* no geometry file (gml_parcela_path is None, or the fetch wrote nothing)
NoFile == [nofile |-> TRUE]

RECURSIVE SumSeq(_)
SumSeq(q) == IF q = <<>> THEN 0 ELSE Head(q) + SumSeq(Tail(q))

\* coords[0::2] and coords[1::2]
Slice2(q, desde) ==
    LET ix == {k \in 1..Len(q) : k >= desde /\ (k - desde) % 2 = 0}
    IN  [j \in 1..Cardinality(ix) |-> q[desde + 2 * (j - 1)]]

\* the pyproj transform behind GeoDataFrame.to_crs: some injective map that is
\* not the identity
ToCrs(v) == 0 - v

(***************************************************************************)
(* CatastroCompleteDownloader: coordinate resolution                       *)
(***************************************************************************)
\* extraer_coordenadas_desde_gml, method 2: centroid of the first posList
CentroidePosList(d) ==
    IF "posList" \in DOMAIN d /\ d.posList # <<>>
    THEN IF \E k \in 1..Len(d.posList) : ~IsFloat(d.posList[k])
         THEN None                                   \* ValueError, caught
         ELSE LET cs == [k \in 1..Len(d.posList) |-> Float(d.posList[k])]
                  x_coords == Slice2(cs, 1)
                  y_coords == Slice2(cs, 2)
              IN  IF x_coords # <<>> /\ y_coords # <<>>
                  THEN [x_utm |-> SumSeq(x_coords) \div Len(x_coords),
                        y_utm |-> SumSeq(y_coords) \div Len(y_coords),
                        epsg |-> "25830", source |-> "centroid"]
                  ELSE None
    ELSE None

extraer_coordenadas_desde_gml(doc) ==
    IF ~doc.xml THEN None                            \* ET.parse raises, caught
    ELSE LET d == doc.data IN
         IF "referencePoint" \in DOMAIN d /\ d.referencePoint # <<>>
            /\ Len(d.referencePoint) >= 2
         THEN IF IsFloat(d.referencePoint[1]) /\ IsFloat(d.referencePoint[2])
              THEN [x_utm |-> Float(d.referencePoint[1]),
                    y_utm |-> Float(d.referencePoint[2]),
                    epsg |-> "25830", source |-> "referencePoint"]
              ELSE None                              \* ValueError, caught
         ELSE CentroidePosList(d)

\* utm_a_wgs84; proj_ok = FALSE: the transform raises
utm_a_wgs84(x_utm, y_utm, geopandas, proj_ok) ==
    IF ~geopandas THEN None
    ELSE IF ~proj_ok THEN None
    ELSE [lon |-> ToCrs(x_utm), lat |-> ToCrs(y_utm), srs |-> "EPSG:4326"]

\* METODO 1: from the parcel GML
MetodoGml(doc, geopandas, proj_ok) ==
    LET coords_utm == extraer_coordenadas_desde_gml(doc)
    IN  IF coords_utm # None
        THEN utm_a_wgs84(coords_utm.x_utm, coords_utm.y_utm, geopandas, proj_ok)
        ELSE None

\* what the lookup code makes of the answer g of its request: the coords, or
\* None when the request raised, the status is not 200, the body does not
\* parse, a field is missing or float() raises (all inside one try/except)
CoordsDeJson(g) ==
    IF g.raised THEN None
    ELSE LET b == g.r.body IN
         IF g.r.status = 200
         THEN IF ~b.json THEN None                   \* r.json() raises, caught
              ELSE IF "geo" \in DOMAIN b.data /\ "xcen" \in DOMAIN b.data.geo
                      /\ "ycen" \in DOMAIN b.data.geo
                   THEN IF IsFloat(b.data.geo.xcen) /\ IsFloat(b.data.geo.ycen)
                        THEN [lon |-> Float(b.data.geo.xcen),
                              lat |-> Float(b.data.geo.ycen), srs |-> "EPSG:4326"]
                        ELSE None                    \* ValueError, caught
                   ELSE None
         ELSE None

CoordsDeXml(g) ==
    IF g.raised THEN None
    ELSE LET b == g.r.body IN
         IF g.r.status = 200
         THEN IF ~b.xml THEN None                    \* ET.fromstring raises, caught
              ELSE IF "coord" \in DOMAIN b.data /\ "geo" \in DOMAIN b.data.coord
                      /\ "xcen" \in DOMAIN b.data.coord.geo
                      /\ "ycen" \in DOMAIN b.data.coord.geo
                   THEN IF IsFloat(b.data.coord.geo.xcen) /\ IsFloat(b.data.coord.geo.ycen)
                        THEN [lon |-> Float(b.data.coord.geo.xcen),
                              lat |-> Float(b.data.coord.geo.ycen), srs |-> "EPSG:4326"]
                        ELSE None                    \* ValueError, caught
                   ELSE None
         ELSE None

\* METODO 2: the JSON lookup
MetodoJson(env) ==
    LET g == safe_get(env, DefaultMaxRetries)
    IN  [coords |-> CoordsDeJson(g), intentos |-> g.attempts]

\* METODO 3: the XML lookup
MetodoXml(env) ==
    LET g == safe_get(env, DefaultMaxRetries)
    IN  [coords |-> CoordsDeXml(g), intentos |-> g.attempts]

Consulta(fuente, c) == [fuente |-> fuente, dio |-> c # None]

\* a cascade that goes on to the XML lookup although the JSON lookup answered
obtener_coordenadas_sin_corte(gml, geopandas, proj_ok, json_env, xml_env) ==
    LET m1 == IF gml # NoFile THEN MetodoGml(gml, geopandas, proj_ok) ELSE None
        l1 == IF gml # NoFile THEN <<Consulta("GML", m1)>> ELSE <<>>
        m2 == MetodoJson(json_env)
        m3 == MetodoXml(xml_env)
    IN  IF m1 # None THEN [coords |-> m1, consultas |-> l1, intentos |-> 0]
        ELSE [coords |-> IF m2.coords # None THEN m2.coords ELSE m3.coords,
              consultas |-> l1 \o <<Consulta("JSON", m2.coords), Consulta("XML", m3.coords)>>,
              intentos |-> m2.intentos + m3.intentos]

\* a cascade that gives up when the JSON lookup fails
obtener_coordenadas_sin_xml(gml, geopandas, proj_ok, json_env, xml_env) ==
    LET m1 == IF gml # NoFile THEN MetodoGml(gml, geopandas, proj_ok) ELSE None
        l1 == IF gml # NoFile THEN <<Consulta("GML", m1)>> ELSE <<>>
        m2 == MetodoJson(json_env)
    IN  IF m1 # None THEN [coords |-> m1, consultas |-> l1, intentos |-> 0]
        ELSE [coords |-> m2.coords, consultas |-> Append(l1, Consulta("JSON", m2.coords)),
              intentos |-> m2.intentos]

\* a cascade that asks the JSON lookup before it reads the geometry file
obtener_coordenadas_json_primero(gml, geopandas, proj_ok, json_env, xml_env) ==
    LET m2 == MetodoJson(json_env)
        l2 == <<Consulta("JSON", m2.coords)>>
        m1 == IF gml # NoFile THEN MetodoGml(gml, geopandas, proj_ok) ELSE None
        l1 == IF gml # NoFile THEN Append(l2, Consulta("GML", m1)) ELSE l2
        m3 == MetodoXml(xml_env)
    IN  IF m2.coords # None THEN [coords |-> m2.coords, consultas |-> l2, intentos |-> m2.intentos]
        ELSE IF m1 # None THEN [coords |-> m1, consultas |-> l1, intentos |-> m2.intentos]
        ELSE [coords |-> m3.coords, consultas |-> Append(l1, Consulta("XML", m3.coords)),
              intentos |-> m2.intentos + m3.intentos]

\* obtener_coordenadas(referencia, gml_parcela_path): gml is the document at
\* gml_parcela_path, NoFile when the path is None or names no file.  The result
\* carries, next to the returned coords, the sources consulted in order (and
\* whether each gave coordinates) and the request attempts made.
obtener_coordenadas(gml, geopandas, proj_ok, json_env, xml_env) ==
    LET m1 == IF gml # NoFile THEN MetodoGml(gml, geopandas, proj_ok) ELSE None
        l1 == IF gml # NoFile THEN <<Consulta("GML", m1)>> ELSE <<>>
    IN  IF m1 # None THEN [coords |-> m1, consultas |-> l1, intentos |-> 0]
        ELSE LET m2 == MetodoJson(json_env)
                 l2 == Append(l1, Consulta("JSON", m2.coords))
             IN  IF m2.coords # None
                 THEN [coords |-> m2.coords, consultas |-> l2, intentos |-> m2.intentos]
                 ELSE LET m3 == MetodoXml(xml_env)
                      IN  [coords |-> m3.coords,
                           consultas |-> Append(l2, Consulta("XML", m3.coords)),
                           intentos |-> m2.intentos + m3.intentos]

(***************************************************************************)
(* CatastroDownloader (catastro_engine): coordinate resolution              *)
(***************************************************************************)
\* Intento 1, inside try / bare except
Engine_Json(env) ==
    LET g == requests_get(env) IN
    IF g.raised THEN None
    ELSE LET b == g.r.body IN
         IF g.r.status = 200
         THEN IF ~b.json THEN None
              ELSE IF "geo" \in DOMAIN b.data
                   THEN IF "xcen" \in DOMAIN b.data.geo /\ "ycen" \in DOMAIN b.data.geo
                           /\ IsFloat(b.data.geo.xcen) /\ IsFloat(b.data.geo.ycen)
                        THEN [lon |-> Float(b.data.geo.xcen),
                              lat |-> Float(b.data.geo.ycen), src |-> "JSON"]
                        ELSE None                    \* KeyError / ValueError, caught
                   ELSE None
         ELSE None

\* Intento 2, inside try / bare except
Engine_Xml(env) ==
    LET g == requests_get(env) IN
    IF g.raised THEN None
    ELSE LET b == g.r.body IN
         IF g.r.status = 200
         THEN IF ~b.xml THEN None
              ELSE IF "coord" \in DOMAIN b.data
                   THEN IF "geo" \in DOMAIN b.data.coord
                           /\ "xcen" \in DOMAIN b.data.coord.geo
                           /\ "ycen" \in DOMAIN b.data.coord.geo
                           /\ IsFloat(b.data.coord.geo.xcen)
                           /\ IsFloat(b.data.coord.geo.ycen)
                        THEN [lon |-> Float(b.data.coord.geo.xcen),
                              lat |-> Float(b.data.coord.geo.ycen), src |-> "XML"]
                        ELSE None                    \* AttributeError / ValueError, caught
                   ELSE None
         ELSE None

\* CatastroDownloader.obtener_coordenadas
Engine_obtener_coordenadas(json_env, xml_env) ==
    LET m1 == Engine_Json(json_env) IN
    IF m1 # None THEN [coords |-> m1, consultas |-> <<Consulta("JSON", m1)>>]
    ELSE LET m2 == Engine_Xml(xml_env)
         IN  [coords |-> m2, consultas |-> <<Consulta("JSON", m1), Consulta("XML", m2)>>]

\* extraer_coordenadas_de_gml: the first pair of the first posList
Engine_extraer_coordenadas_de_gml(doc) ==
    IF ~doc.xml THEN None
    ELSE IF "posList" \in DOMAIN doc.data
         THEN IF Len(doc.data.posList) >= 2 /\ IsFloat(doc.data.posList[1])
                 /\ IsFloat(doc.data.posList[2])
              THEN [lat |-> Float(doc.data.posList[1]), lon |-> Float(doc.data.posList[2]),
                    src |-> "GML_EXTRACT"]
              ELSE None                              \* IndexError / ValueError, caught
         ELSE None

\* descargar_todo_completo, steps 2 and 3: the lookups, then the rescue from
\* the geometry already fetched (gml_content; NoFile when the fetch gave None)
Engine_resolver(gml_content, json_env, xml_env) ==
    LET o == Engine_obtener_coordenadas(json_env, xml_env) IN
    IF o.coords = None /\ gml_content # NoFile
    THEN LET r == Engine_extraer_coordenadas_de_gml(gml_content)
         IN  [coords |-> r, consultas |-> Append(o.consultas, Consulta("GML", r))]
    ELSE o

(***************************************************************************)
(* AnalizadorUrbanistico (urban_analysis): coordinate resolution            *)
(***************************************************************************)
\* gpd.read_file(gml_path) yields a geometry: the document parses and its
\* posList is a list of numeric pairs
GpdLee(doc) ==
    /\ doc.xml
    /\ "posList" \in DOMAIN doc.data
    /\ Len(doc.data.posList) >= 2
    /\ Len(doc.data.posList) % 2 = 0
    /\ \A k \in 1..Len(doc.data.posList) : IsFloat(doc.data.posList[k])

\* AnalizadorUrbanistico._obtener_coordenadas
Urban_obtener_coordenadas(json_env, xml_env) ==
    LET m1 == CoordsDeJson(Urban_safe_get(json_env, DefaultMaxRetries)) IN
    IF m1 # None THEN [coords |-> m1, consultas |-> <<Consulta("JSON", m1)>>]
    ELSE LET m2 == CoordsDeXml(Urban_safe_get(xml_env, DefaultMaxRetries))
         IN  [coords |-> m2, consultas |-> <<Consulta("JSON", m1), Consulta("XML", m2)>>]

\* obtener_datos_catastrales, step 1: the centroid of the parcel read with
\* GeoPandas, else the lookups
Urban_resolver(gml_path, geopandas, proj_ok, json_env, xml_env) ==
    LET usa == gml_path # NoFile /\ geopandas
        c == IF usa /\ GpdLee(gml_path) /\ proj_ok
             THEN LET u == CentroidePosList(gml_path.data)
                  IN  [lon |-> ToCrs(u.x_utm), lat |-> ToCrs(u.y_utm), srs |-> "EPSG:4326"]
             ELSE None
        l == IF usa THEN <<Consulta("GML", c)>> ELSE <<>>
    IN  IF c # None THEN [coords |-> c, consultas |-> l]
        ELSE LET o == Urban_obtener_coordenadas(json_env, xml_env)
             IN  [coords |-> o.coords, consultas |-> l \o o.consultas]

\* obtener_datos_catastrales as a whole: the record it returns, with the
\* geometry behind its "kml" entry: the parcel written by a KML driver
\* (kml_ok), a file found at kml_path (existe), or the square that
\* _generar_geojson_basico draws around the coordinates, around its default
\* point in Madrid when it is given none; cupo = 0: writing it raises
Urban_obtener_datos_catastrales(gml_path, geopandas, proj_ok, json_env, xml_env, kml_ok, existe, cupo, capas) ==
    LET r == Urban_resolver(gml_path, geopandas, proj_ok, json_env, xml_env)
        kml_generado == gml_path # NoFile /\ geopandas /\ GpdLee(gml_path) /\ proj_ok /\ kml_ok
        basico == ~kml_generado /\ ~existe
    IN  IF basico /\ cupo = 0
        THEN [status |-> "error", coords |-> None, consultas |-> r.consultas,
              geometria |-> "", wms_layers |-> {}]
        ELSE [status |-> "success", coords |-> r.coords, consultas |-> r.consultas,
              geometria |-> IF ~basico THEN "parcela"
                            ELSE IF r.coords # None THEN "cuadrado" ELSE "madrid",
              wms_layers |-> IF HayCoordenadas(r.coords) THEN capas ELSE {}]

\* CatastroDownloader.descargar_todo_completo as a whole: the status of the
\* dict it returns; cupo = 0: writing info.json raises
Engine_descargar_todo_completo(gml_content, json_env, xml_env, cupo, capas) ==
    LET r == Engine_resolver(gml_content, json_env, xml_env)
    IN  IF ~HayCoordenadas(r.coords)
        THEN [status |-> "error_coords", coords |-> r.coords, consultas |-> r.consultas,
              geometria |-> "", wms_layers |-> {}]
        ELSE [status |-> IF cupo = 0 THEN "excepcion" ELSE "success", coords |-> r.coords,
              consultas |-> r.consultas,
              geometria |-> IF gml_content # NoFile THEN "parcela" ELSE "",
              wms_layers |-> capas]

(***************************************************************************)
(* CatastroCompleteDownloader: paths under output_dir                      *)
(*                                                                         *)
(* A path is the record of its components below output_dir; a component    *)
(* is a reference followed by the fixed pieces of text appended to it.      *)
(* pathlib drops an empty component: Path("outputs") / "" is              *)
(* Path("outputs").                                                        *)
(***************************************************************************)
Comp(ref, sufijo) == [ref |-> ref, sufijo |-> sufijo]

Join(p) == [partes |-> SelectSeq(p, LAMBDA c : c # Comp(<<>>, <<>>))]

\* self.output_dir, made by the constructor
OutputDir == Join(<<>>)

\* ref_dir = self.output_dir / ref
RefDir(ref) == Join(<<Comp(ref, <<>>)>>)

\* ref_dir / carpeta
SubDir(ref, carpeta) == Join(<<Comp(ref, <<>>), Comp(<<>>, <<carpeta>>)>>)

\* ref_dir / carpeta / f"{ref}{nombre}"
Ruta(ref, carpeta, nombre) ==
    Join(<<Comp(ref, <<>>), Comp(<<>>, <<carpeta>>), Comp(ref, nombre)>>)

\* self.output_dir / f"{referencia}_completo.zip"
RutaZip(ref) == Join(<<Comp(ref, <<"_completo.zip">>)>>)

\* the directories descargar_todo_completo makes, in the order it makes them
Carpetas == <<"json", "html", "gml", "kml", "images", "pdf">>
Arbol(ref) == <<RefDir(ref)>> \o [k \in 1..Len(Carpetas) |-> SubDir(ref, Carpetas[k])]

\* the mkdir calls of descargar_todo_completo against a filesystem that lets
\* cupo new directories be made and refuses the next one: mkdir(exist_ok=True)
\* of a directory that is there makes nothing and raises nothing
RECURSIVE CrearArbol(_, _, _)
CrearArbol(arbol, hay, cupo) ==
    IF arbol = <<>> THEN [raised |-> FALSE, disco |-> hay]
    ELSE IF Head(arbol) \in hay THEN CrearArbol(Tail(arbol), hay, cupo)
    ELSE IF cupo = 0 THEN [raised |-> TRUE, disco |-> hay]      \* OSError
    ELSE CrearArbol(Tail(arbol), hay \cup {Head(arbol)}, cupo - 1)

(***************************************************************************)
(* CatastroCompleteDownloader: the download steps                          *)
(*                                                                         *)
(* Each step yields [ret, escritos, ...]: its return value and the files   *)
(* it wrote.  cupo is the number of file writes the filesystem accepts     *)
(* during the step; the write after that raises OSError.  Every step first *)
(* calls mkdir(exist_ok=True) on its subfolder, outside its try block;     *)
(* descargar_todo_completo has made that subfolder before.                 *)
(***************************************************************************)
UmbralGml == 500
UmbralWms == 1000

\* parcel documents of the orchestrator runs: one with a reference point and
\* a ring, one whose geometry sits in elements of another GML namespace (the
\* ElementTree queries find nothing, GeoPandas reads it), one that is no XML
DocParcela == [xml |-> TRUE,
               data |-> [referencePoint |-> <<"1", "2">>, posList |-> <<"1", "1", "2", "2">>]]
DocOtroGml == [xml |-> TRUE, data |-> [geometria |-> <<"1", "1", "2", "2">>]]
DocIlegible == [xml |-> FALSE, data |-> [otro |-> "x"]]

\* gpd.read_file gives a non-empty frame
LeeParcela(doc) == GpdLee(doc) \/ (doc.xml /\ "geometria" \in DOMAIN doc.data)

\* bodies of the feature service (GetParcel, GetBuilding): whether they hold
\* b'ExceptionReport', their length and the document they carry
GeomBodies ==
    {[er |-> e, len |-> n, doc |-> d] :
        e \in BOOLEAN, n \in {300, 600}, d \in {DocParcela, DocOtroGml, DocIlegible}}
GeomResps == {Resp(st, b) : st \in {200, 500}, b \in GeomBodies}

\* bodies of the map service and of the overlay feature services
WmsResps == {Resp(st, [len |-> n]) : st \in {200, 500}, n \in {600, 1200}}
WfsResps == {Resp(st, [er |-> e, len |-> n]) : st \in {200, 500}, e \in BOOLEAN, n \in {300, 600}}

\* bodies of the fiche endpoints, by their first bytes
FichaResps == {Resp(st, [inicio |-> i]) : st \in {200, 500}, i \in {"%PDF", "<?xml", "<html"}}

\* answers of the SIGPAC print service, by their Content-Type header
SigpacResps ==
    {Resp(st, [content_type |-> t]) : st \in {200, 500}, t \in {"application/pdf", "text/html"}}

\* descargar_consulta_descriptiva; ret: whether it returns data
descargar_consulta_descriptiva(ref, env, cupo) ==
    LET g == safe_get(env, DefaultMaxRetries)
        data == ~g.raised /\ g.r.status = 200 /\ g.r.body.json
        w1 == data /\ cupo >= 1                      \* the JSON file
        w2 == w1 /\ cupo >= 2                        \* the HTML file
    IN  [ret |-> w2,
         escritos |-> (IF w1 THEN {Ruta(ref, "json", <<"_consulta_descriptiva.json">>)} ELSE {})
                      \cup (IF w2 THEN {Ruta(ref, "html", <<"_consulta_descriptiva.html">>)} ELSE {})]

\* descargar_parcela_gml; ret: the document in the file it returns, NoFile for
\* None.  The KML is written inside a try of its own.
\* a parcel fetch that looks at the status only
descargar_parcela_gml_sin_marca(ref, geopandas, proj_ok, env, cupo) ==
    LET g == safe_get(env, DefaultMaxRetries)
        acepta == ~g.raised /\ g.r.status = 200
        w1 == acepta /\ cupo >= 1
    IN  [ret |-> IF w1 THEN g.r.body.doc ELSE NoFile,
         escritos |-> IF w1 THEN {Ruta(ref, "gml", <<"_parcela.gml">>)} ELSE {}]

descargar_parcela_gml(ref, geopandas, proj_ok, env, cupo) ==
    LET g == safe_get(env, DefaultMaxRetries)
        acepta == ~g.raised /\ g.r.status = 200 /\ ~g.r.body.er
        w1 == acepta /\ cupo >= 1                    \* the GML file
        w2 == w1 /\ geopandas /\ LeeParcela(g.r.body.doc) /\ proj_ok /\ cupo >= 2
    IN  [ret |-> IF w1 THEN g.r.body.doc ELSE NoFile,
         escritos |-> (IF w1 THEN {Ruta(ref, "gml", <<"_parcela.gml">>)} ELSE {})
                      \cup (IF w2 THEN {Ruta(ref, "kml", <<"_parcela.kml">>)} ELSE {})]

\* the srsname of the params the two fetches of the downloader send for a
\* reference: the literal of lines 296 and 329
SrsnameParcela(ref) == "EPSG:25830"
SrsnameEdificio(ref) == "EPSG:25830"

\* AnalizadorUrbanistico._descargar_parcela_gml: no try block of its own, the
\* exception of _safe_get and the OSError of write_bytes leave it
Urban_descargar_parcela_gml(ref, env, cupo) ==
    LET g == Urban_safe_get(env, DefaultMaxRetries)
        acepta == ~g.raised /\ g.r.status = 200 /\ ~g.r.body.er
        w1 == acepta /\ cupo >= 1
    IN  [ret |-> w1, raised |-> g.raised \/ (acepta /\ cupo = 0),
         escritos |-> IF w1 THEN {Join(<<Comp(ref, <<>>), Comp(ref, <<"_parcela.gml">>)>>)}
                      ELSE {}]

\* CatastroDownloader.descargar_geometrias (catastro_engine): one request, the
\* marker looked for is b'Exception'; ret: whether it returns the content
Engine_descargar_geometrias(ref, geopandas, env, cupo) ==
    LET g == requests_get(env)
        acepta == ~g.raised /\ g.r.status = 200 /\ ~g.r.body.excepcion
        w1 == acepta /\ cupo >= 1
        w2 == w1 /\ geopandas /\ LeeParcela(g.r.body.doc) /\ cupo >= 2
    IN  [ret |-> w1, raised |-> FALSE,
         escritos |->
            (IF w1 THEN {Join(<<Comp(ref, <<>>), Comp(<<>>, <<"geometrias">>),
                                Comp(ref, <<"_parcela.gml">>)>>)} ELSE {})
            \cup (IF w2 THEN {Join(<<Comp(ref, <<>>), Comp(<<>>, <<"geometrias">>),
                                     Comp(ref, <<"_parcela.kml">>)>>)} ELSE {})]

\* descargar_edificio_gml; ret: whether it returns a file
descargar_edificio_gml(ref, env, cupo) ==
    LET g == safe_get(env, DefaultMaxRetries)
        acepta == ~g.raised /\ g.r.status = 200 /\ ~g.r.body.er /\ g.r.body.len > UmbralGml
        w1 == acepta /\ cupo >= 1
    IN  [ret |-> w1,
         escritos |-> IF w1 THEN {Ruta(ref, "gml", <<"_edificio.gml">>)} ELSE {}]

\* descargar_ficha_catastral: the PDF, else the XML
descargar_ficha_catastral(ref, env_pdf, env_xml, cupo) ==
    LET g1 == safe_get(env_pdf, DefaultMaxRetries)
        pdf == ~g1.raised /\ g1.r.status = 200 /\ g1.r.body.inicio = "%PDF" /\ cupo >= 1
        g2 == safe_get(env_xml, DefaultMaxRetries)
        xml == ~g2.raised /\ g2.r.status = 200 /\ g2.r.body.inicio = "<?xml" /\ cupo >= 1
    IN  IF pdf
        THEN [ret |-> TRUE, escritos |-> {Ruta(ref, "pdf", <<"_ficha.pdf">>)}]
        ELSE [ret |-> xml, escritos |-> IF xml THEN {Ruta(ref, "pdf", <<"_ficha.xml">>)} ELSE {}]

\* descargar_capa_wms; ret: whether it returns a file
descargar_capa_wms(ref, nombre_capa, env, cupo) ==
    LET g == safe_get(env, DefaultMaxRetries)
        acepta == ~g.raised /\ g.r.status = 200 /\ g.r.body.len > UmbralWms
        w1 == acepta /\ cupo >= 1
    IN  [ret |-> w1,
         escritos |-> IF w1 THEN {Ruta(ref, "images", <<"_capa_", nombre_capa, ".png">>)}
                      ELSE {}]

\* self.capas_wms, in insertion order
CapasWms == <<"catastro", "ortofoto", "callejero", "hidrografia">>

\* the end of descargar_capas_multiples: the composition, when Pillow is there
\* and a layer was downloaded, and the return value
FinCapasMultiples(ref, descargadas, pillow, cupo) ==
    [ret |-> descargadas # {},
     escritos |-> IF pillow /\ descargadas # {} /\ cupo >= 1
                  THEN {Ruta(ref, "images", <<"_composicion_completa.png">>)} ELSE {}]

\* self.servicios_wfs, in insertion order
ServiciosWfs == <<"espacios_naturales", "zonas_inundables", "dph", "carreteras">>

\* what reading an accepted answer and intersecting it with the parcel gives:
\* "error" an exception (caught by the try inside the loop), "vacia" no
\* features, "disjunta" an empty or zero-area intersection, "afecta"
ResultadosCapa == {"error", "vacia", "disjunta", "afecta"}

\* analizar_afectaciones, one turn of the loop over servicios_wfs: whether the
\* service is appended to afectaciones_detectadas
ConsultarServicioWfs(env, capa) ==
    LET g == safe_get(env, DefaultMaxRetries)
        acepta == ~g.raised /\ g.r.status = 200 /\ g.r.body.len > UmbralGml /\ ~g.r.body.er
    IN  acepta /\ capa = "afecta"

\* analizar_afectaciones, after the loop: the JSON summary and the HTML
\* report; ret: whether it returns the summary
FinAfectaciones(ref, cupo) ==
    [ret |-> cupo >= 2,
     escritos |-> (IF cupo >= 1 THEN {Ruta(ref, "json", <<"_analisis_afectaciones.json">>)} ELSE {})
                  \cup (IF cupo >= 2 THEN {Ruta(ref, "html", <<"_informe_afectaciones.html">>)} ELSE {})]

\* descargar_pdf_sigpac with GeoPandas there: its own coordinate resolution
\* (no geometry path), then reprojection, POST and PDF inside one try
descargar_pdf_sigpac(ref, proj_ok, json_env, xml_env, env, cupo) ==
    LET c == obtener_coordenadas(NoFile, TRUE, proj_ok, json_env, xml_env).coords
        g == safe_get(env, DefaultMaxRetries)
        pdf == c # None /\ proj_ok /\ ~g.raised /\ g.r.status = 200
               /\ g.r.body.content_type = "application/pdf" /\ cupo >= 1
    IN  [ret |-> pdf, coords |-> c,
         escritos |-> IF pdf THEN {Ruta(ref, "pdf", <<"_informe_sigpac.pdf">>)} ELSE {}]

\* crear_zip_comprimido: the path of the archive, None when writing it raises
crear_zip_comprimido(ref, cupo) ==
    [ret |-> IF cupo >= 1 THEN RutaZip(ref) ELSE None,
     escritos |-> IF cupo >= 1 THEN {RutaZip(ref)} ELSE {}]

\* a tally that asks for one successful step only
Exito_alguno(res) == \E k \in DOMAIN res : res[k]

\* the tally of descargar_todo_completo: exitosos == total
Exito(res) == Cardinality({k \in DOMAIN res : res[k]}) = Cardinality(DOMAIN res)

(***************************************************************************)
(* Idle values of the variables a specification does not use               *)
(***************************************************************************)
NormIdle ==
    /\ n_pc = "idle" /\ n_impl = "complete" /\ n_texto = <<>>
    /\ n_limpio = <<>> /\ n_relimpio = <<>>

SgOut0 == [raised |-> FALSE, r |-> Exc, attempts |-> 0]

SgIdle ==
    /\ sg_pc = "idle" /\ sg_impl = "complete" /\ sg_env = <<>>
    /\ sg_max = 0 /\ sg_out = SgOut0

COut0 == [coords |-> None, consultas |-> <<>>, intentos |-> 0]

CoordIdle ==
    /\ c_pc = "idle" /\ c_impl = "complete" /\ c_geopandas = FALSE /\ c_proj_ok = FALSE
    /\ c_gml = NoFile /\ c_json = <<>> /\ c_xml = <<>> /\ c_out = COut0

GOut0 == [ret |-> FALSE, raised |-> FALSE, escritos |-> {}, srsname |-> ""]

GeomIdle ==
    /\ g_pc = "idle" /\ g_fn = "parcela" /\ g_ref = <<>> /\ g_geopandas = FALSE
    /\ g_env = <<>> /\ g_cupo = 0 /\ g_out = GOut0

AfectIdle ==
    /\ a_pc = "idle" /\ a_impl = "complete" /\ a_lee = FALSE /\ a_parcela = {} /\ a_capas = <<>>
    /\ a_cupo = 0 /\ a_out = None

WmsIdle ==
    /\ w_pc = "idle" /\ w_impl = "complete" /\ w_coords = None /\ w_bbox = None
    /\ w_pendientes = <<>> /\ w_peticiones = <<>> /\ w_descargadas = {}

SigpacIdle ==
    coords_sigpac = None

ParIdle ==
    /\ p_refs = <<>> /\ p_pc = <<>> /\ p_disco = {} /\ p_escritos = <<>> /\ p_leidos = <<>>

OrtoIdle ==
    /\ o_pc = "idle" /\ o_ref = <<>> /\ o_coords = None /\ o_geopandas = FALSE /\ o_pendientes = <<>>
    /\ o_disco = {} /\ o_ortophotos = <<>>

HttpIdle ==
    /\ k_pc = "idle" /\ k_geopandas = FALSE /\ k_archivo = NoFile /\ k_coords = FALSE
    /\ k_pendientes = 0 /\ k_llamadas = 0 /\ k_intentos = 0

\* the variables of one run of descargar_todo_completo before it starts
RunVacio ==
    /\ escritos = {} /\ archivo_parcela_gml = NoFile /\ coords = None
    /\ capas_pendientes = <<>> /\ capas_descargadas = {}
    /\ servicios_pendientes = <<>> /\ afectaciones_detectadas = {}
    /\ resultados = <<>> /\ zip_path = None /\ retorno = None

LoteIdle ==
    /\ pc = "idle" /\ referencias = <<>> /\ referencia = <<>>
    /\ GEOPANDAS_AVAILABLE = FALSE /\ disco = {} /\ lote = <<>>
    /\ RunVacio

(***************************************************************************)
(* SpecNorm: limpiar_referencia applied once and then to its own result    *)
(***************************************************************************)
NormInit ==
    /\ n_pc = "inicio"
    /\ n_impl \in Impls
    /\ n_texto \in SeqsUpTo(MaxLen)
    /\ n_limpio = <<>>
    /\ n_relimpio = <<>>

NormLimpiar ==
    /\ n_pc = "inicio"
    /\ n_limpio' = Limpiar(n_impl, n_texto)
    /\ n_pc' = "limpio"
    /\ UNCHANGED <<n_impl, n_texto, n_relimpio, no_norm_vars>>

NormRelimpiar ==
    /\ n_pc = "limpio"
    /\ n_relimpio' = Limpiar(n_impl, n_limpio)
    /\ n_pc' = "relimpio"
    /\ UNCHANGED <<n_impl, n_texto, n_limpio, no_norm_vars>>

(***************************************************************************)
(* SpecSafeGet: one call of the retry wrapper against a scripted network   *)
(***************************************************************************)
SgResps == {Resp(s, [texto |-> t]) : s \in {200, 500}, t \in {"gml", "ExceptionReport"}}

SgInit ==
    /\ sg_pc = "inicio"
    /\ sg_impl \in {"complete", "urban"}
    /\ sg_max \in 0..MaxRetriesBound
    /\ sg_env \in [1..(MaxRetriesBound + 2) -> {Exc} \cup SgResps]
    /\ sg_out = SgOut0

SgLlamar ==
    /\ sg_pc = "inicio"
    /\ sg_out' = IF sg_impl = "complete" THEN safe_get(sg_env, sg_max)
                 ELSE Urban_safe_get(sg_env, sg_max)
    /\ sg_pc' = "fin"
    /\ UNCHANGED <<sg_impl, sg_env, sg_max, no_sg_vars>>

(***************************************************************************)
(* SpecCoord: one coordinate resolution, in each implementation, against a *)
(* scripted geometry file and scripted lookup services                     *)
(***************************************************************************)
Redes(resps) == {Red(f, r, DefaultMaxRetries + 1) : f \in 0..MaxFallos, r \in resps}

CoordInit ==
    /\ c_pc = "inicio"
    /\ c_impl \in Impls
    /\ c_geopandas \in BOOLEAN
    /\ c_proj_ok \in BOOLEAN
    /\ c_gml \in {NoFile} \cup GmlDocs
    /\ c_json \in Redes(JsonResps)
    /\ c_xml \in Redes(XmlResps)
    /\ c_out = COut0

CoordResolver ==
    /\ c_pc = "inicio"
    /\ c_out' = CASE c_impl = "complete" ->
                       obtener_coordenadas(c_gml, c_geopandas, c_proj_ok, c_json, c_xml)
                  [] c_impl = "engine" -> Engine_resolver(c_gml, c_json, c_xml)
                  [] c_impl = "urban" ->
                       Urban_resolver(c_gml, c_geopandas, c_proj_ok, c_json, c_xml)
    /\ c_pc' = "fin"
    /\ UNCHANGED <<c_impl, c_geopandas, c_proj_ok, c_gml, c_json, c_xml,
                   no_coord_vars>>

\* the whole call in the two modules that return a status
CoordDatos ==
    /\ c_pc = "inicio" /\ c_impl \in {"urban", "engine"}
    /\ \E kml_ok \in BOOLEAN, existe \in BOOLEAN, cupo \in 0..1, capas \in {{}, {"ortofoto"}} :
          c_out' = IF c_impl = "urban"
                   THEN Urban_obtener_datos_catastrales(c_gml, c_geopandas, c_proj_ok, c_json,
                                                        c_xml, kml_ok, existe, cupo, capas)
                   ELSE Engine_descargar_todo_completo(c_gml, c_json, c_xml, cupo, capas)
    /\ c_pc' = "datos"
    /\ UNCHANGED <<c_impl, c_geopandas, c_proj_ok, c_gml, c_json, c_xml,
                   no_coord_vars>>

(***************************************************************************)
(* SpecGeom: one geometry fetch (GetParcel / GetBuilding), in each of the  *)
(* four functions that make one, against a scripted feature service        *)
(***************************************************************************)
\* bodies of the feature service with the bytes the code looks for: er is
\* b'ExceptionReport' in the body, excepcion is b'Exception' in the body
GeomBodiesMarca ==
    {b \in [er : BOOLEAN, excepcion : BOOLEAN, len : {300, 600},
            doc : {DocParcela, DocIlegible}] : b.er => b.excepcion}

\* references of the mainland and of the Canary Islands provinces 35 and 38
GeomRefs == {<<"2", "8", "1">>, <<"3", "5", "1">>, <<"3", "8", "1">>, <<"5", "3", "8">>}

GeomInit ==
    /\ g_pc = "inicio"
    /\ g_fn \in {"parcela", "edificio", "urban", "engine"}
    /\ g_ref \in GeomRefs
    /\ g_geopandas \in BOOLEAN
    /\ g_env \in {Red(f, r, DefaultMaxRetries + 1) :
                    f \in 0..MaxFallos, r \in {Resp(st, b) : st \in {200, 500}, b \in GeomBodiesMarca}}
    /\ g_cupo \in 0..2
    /\ g_out = GOut0

GeomDescargar ==
    /\ g_pc = "inicio"
    /\ g_out' =
          CASE g_fn = "parcela" ->
                 LET p == descargar_parcela_gml(limpiar_referencia(g_ref), g_geopandas, TRUE,
                                                g_env, g_cupo)
                 IN  [ret |-> p.ret # NoFile, raised |-> FALSE, escritos |-> p.escritos,
                      srsname |-> SrsnameParcela(limpiar_referencia(g_ref))]
            [] g_fn = "edificio" ->
                 LET p == descargar_edificio_gml(limpiar_referencia(g_ref), g_env, g_cupo)
                 IN  [ret |-> p.ret, raised |-> FALSE, escritos |-> p.escritos,
                      srsname |-> SrsnameEdificio(limpiar_referencia(g_ref))]
            [] g_fn = "urban" ->
                 LET p == Urban_descargar_parcela_gml(g_ref, g_env, g_cupo)
                 IN  [ret |-> p.ret, raised |-> p.raised, escritos |-> p.escritos,
                      srsname |-> "EPSG:25830"]
            [] g_fn = "engine" ->
                 LET p == Engine_descargar_geometrias(g_ref, g_geopandas, g_env, g_cupo)
                 IN  [ret |-> p.ret, raised |-> p.raised, escritos |-> p.escritos,
                      srsname |-> "EPSG:4326"]
    /\ g_pc' = "fin"
    /\ UNCHANGED <<g_fn, g_ref, g_geopandas, g_env, g_cupo, no_geom_vars>>

(***************************************************************************)
(* SpecAfect: the overlay of one parcel with the configured layers, in     *)
(* analizar_afectaciones (WFS services) and in VectorAnalyzer (layer files) *)
(***************************************************************************)
\* Geometries are sets of pieces: the cells 1 to 4 of a row, of 50 m2 each,
\* and piece 0, a strip of 0.004 m2 along the edge of cell 1.  geometry.area
\* in EPSG:25830 is in thousandths of a square metre; in the square degrees
\* of EPSG:4326 every piece has some area.
AreaM2(g) == Cardinality(g \ {0}) * 50000 + Cardinality(g \cap {0}) * 4
AreaGrados(g) == Cardinality(g)

\* round(float(x), 2) of an area: from thousandths to hundredths
Round2(x) == (x + 5) \div 10

\* gpd.overlay(parcela, features, how='intersection'): one row for each
\* feature that meets the parcel, holding the part of the parcel it covers
Overlay(parcela, features) ==
    SelectSeq([k \in 1..Len(features) |-> parcela \cap features[k]], LAMBDA g : g # {})

\* inter.geometry.area.sum(), in square degrees and after to_crs('EPSG:25830')
SumaGrados(inter) == SumSeq([k \in 1..Len(inter) |-> AreaGrados(inter[k])])
SumaM2(inter) == SumSeq([k \in 1..Len(inter) |-> AreaM2(inter[k])])

\* round(x / y * 100, 2), in hundredths of a percent, of an area x in
\* thousandths over the recorded parcel area y in hundredths
Porcentaje2(x, y) == (x * 1000 * 2 + y) \div (2 * y)

\* what a layer holds: lee = FALSE when gpd.read_file raises, crs = FALSE
\* when to_crs raises, valida = FALSE when gpd.overlay raises on its
\* geometries; then: no feature, a feature beside the parcel, one over a
\* cell of it, one over all of it, two features over each other, a feature
\* in two parts, a feature that shares only the strip with the parcel
Contenido(lee, crs, valida, features) ==
    [lee |-> lee, crs |-> crs, valida |-> valida, features |-> features]
Contenidos ==
    { Contenido(FALSE, TRUE, TRUE, <<>>), Contenido(TRUE, FALSE, TRUE, <<{1}>>),
      Contenido(TRUE, TRUE, FALSE, <<{1}>>), Contenido(TRUE, TRUE, TRUE, <<>>),
      Contenido(TRUE, TRUE, TRUE, <<{4}>>), Contenido(TRUE, TRUE, TRUE, <<{1}>>),
      Contenido(TRUE, TRUE, TRUE, <<{0, 1, 2, 3, 4}>>),
      Contenido(TRUE, TRUE, TRUE, <<{0, 1, 2, 3}, {0, 1, 2, 3, 4}>>),
      Contenido(TRUE, TRUE, TRUE, <<{1}, {2}>>), Contenido(TRUE, TRUE, TRUE, <<{0}>>) }

\* what a WFS service gives one bbox query: an accepted answer, an answer
\* refused for its status, its marker or its length, or transport failures
CapaRedes ==
    {Red(0, Resp(200, [er |-> FALSE, len |-> 600, contenido |-> c]), DefaultMaxRetries + 1) :
        c \in Contenidos}
    \cup {Red(0, Resp(b[1], [er |-> b[2], len |-> b[3],
                             contenido |-> Contenido(TRUE, TRUE, TRUE, <<{1}>>)]),
               DefaultMaxRetries + 1) :
            b \in {<<500, FALSE, 600>>, <<200, TRUE, 600>>, <<200, FALSE, 300>>}}
    \cup {Red(MaxFallos, Exc, DefaultMaxRetries + 1)}

\* a loop body that measures the intersection in the degrees of EPSG:4326
AfectacionDeServicio_grados(parcela, nombre_servicio, env) ==
    LET g == safe_get(env, DefaultMaxRetries)
        acepta == ~g.raised /\ g.r.status = 200 /\ g.r.body.len > UmbralGml /\ ~g.r.body.er
        c == g.r.body.contenido
        inter == Overlay(parcela, c.features)
        area_afect == SumaGrados(inter)
    IN  IF acepta /\ c.lee /\ c.features # <<>> /\ c.crs /\ c.valida
           /\ inter # <<>> /\ SumaGrados(inter) > 0
        THEN << [tipo |-> nombre_servicio, detectado |-> TRUE,
                 area_afectada_m2 |-> Round2(area_afect),
                 porcentaje_parcela |-> Porcentaje2(area_afect, Round2(AreaM2(parcela))),
                 numero_elementos |-> Len(inter)] >>
        ELSE <<>>

\* analizar_afectaciones, the body of the loop for one service: the entries
\* it appends to afectaciones_detectadas; every exception is caught inside
AfectacionDeServicio(parcela, nombre_servicio, env) ==
    LET g == safe_get(env, DefaultMaxRetries)
        acepta == ~g.raised /\ g.r.status = 200 /\ g.r.body.len > UmbralGml /\ ~g.r.body.er
        c == g.r.body.contenido
        inter == Overlay(parcela, c.features)
        area_afect == SumaM2(inter)
    IN  IF acepta /\ c.lee /\ c.features # <<>> /\ c.crs /\ c.valida
           /\ inter # <<>> /\ SumaGrados(inter) > 0
        THEN << [tipo |-> nombre_servicio, detectado |-> TRUE,
                 area_afectada_m2 |-> Round2(area_afect),
                 porcentaje_parcela |-> Porcentaje2(area_afect, Round2(AreaM2(parcela))),
                 numero_elementos |-> Len(inter)] >>
        ELSE <<>>

\* a loop that an exception in one service leaves
RECURSIVE ConsultarServicios_aborta(_, _, _)
ConsultarServicios_aborta(parcela, envs, i) ==
    IF i > Len(ServiciosWfs) THEN <<>>
    ELSE LET g == safe_get(envs[i], DefaultMaxRetries) IN
         IF g.raised \/ (g.r.status = 200 /\ g.r.body.len > UmbralGml /\ ~g.r.body.er
                         /\ ~(g.r.body.contenido.lee /\ g.r.body.contenido.crs
                              /\ g.r.body.contenido.valida))
         THEN <<>>
         ELSE <<AfectacionDeServicio(parcela, ServiciosWfs[i], envs[i])>>
              \o ConsultarServicios_aborta(parcela, envs, i + 1)

\* analizar_afectaciones, the loop over self.servicios_wfs from service i on:
\* for each service queried, what it appended
RECURSIVE ConsultarServicios(_, _, _)
ConsultarServicios(parcela, envs, i) ==
    IF i > Len(ServiciosWfs) THEN <<>>
    ELSE <<AfectacionDeServicio(parcela, ServiciosWfs[i], envs[i])>>
         \o ConsultarServicios(parcela, envs, i + 1)

RECURSIVE Aplanar(_)
Aplanar(q) == IF q = <<>> THEN <<>> ELSE Head(q) \o Aplanar(Tail(q))

\* analizar_afectaciones with GeoPandas there and a parcel file that reads:
\* consultas is one item per service queried, json what the summary file holds
analizar_afectaciones(ref, parcela, envs, cupo) ==
    LET consultas == ConsultarServicios(parcela, envs, 1)
        afectaciones == [referencia |-> ref, area_parcela_m2 |-> Round2(AreaM2(parcela)),
                         afectaciones_detectadas |-> Aplanar(consultas)]
        fin == FinAfectaciones(ref, cupo)
    IN  [ret |-> IF fin.ret THEN afectaciones ELSE None, raised |-> FALSE,
         consultas |-> Len(consultas),
         json |-> IF cupo >= 1 THEN afectaciones ELSE None,
         escritos |-> fin.escritos]

\* VectorAnalyzer._analizar_capa_especifica: its three unguarded calls, then
\* afectado and area_m2
Vector_analizar_capa_especifica(parcela, capa) ==
    IF ~capa.lee \/ ~capa.crs \/ ~capa.valida THEN [raised |-> TRUE]
    ELSE LET interseccion == Overlay(parcela, capa.features)
         IN  [raised |-> FALSE, afectado |-> interseccion # <<>>,
              area_m2 |-> Round2(IF interseccion # <<>> THEN SumaM2(interseccion) ELSE 0)]

\* the layer files under capas_dir, by their stem
NombresCapas == <<"inundabilidad", "urbanismo">>

\* VectorAnalyzer.ejecutar_analisis_completo, the loop from file i on: no
\* try around its body; each map written takes one unit of cupo
RECURSIVE Vector_bucle(_, _, _, _)
Vector_bucle(parcela, capas, i, cupo) ==
    IF i > Len(capas) THEN [raised |-> FALSE, results |-> <<>>, mapas |-> 0]
    ELSE LET info == Vector_analizar_capa_especifica(parcela, capas[i]) IN
         IF info.raised \/ cupo = 0
         THEN [raised |-> TRUE, results |-> <<>>,
               mapas |-> 0]
         ELSE LET resto == Vector_bucle(parcela, capas, i + 1, cupo - 1)
              IN  [raised |-> resto.raised,
                   results |-> << [capa |-> NombresCapas[i], afectado |-> info.afectado,
                                   area_afectada |-> info.area_m2] >> \o resto.results,
                   mapas |-> 1 + resto.mapas]

\* VectorAnalyzer.ejecutar_analisis_completo; lee = FALSE: the parcel file
\* does not read
Vector_ejecutar_analisis_completo(ref, lee, parcela, capas, cupo) ==
    IF ~lee
    THEN [ret |-> [error |-> TRUE], raised |-> FALSE, consultas |-> 0, json |-> None,
          escritos |-> {}]
    ELSE LET b == Vector_bucle(parcela, capas, 1, cupo)
             mapas == {Join(<<Comp(ref, <<>>), Comp(ref, <<"_", NombresCapas[k], ".png">>)>>) :
                          k \in 1..b.mapas}
             guarda == ~b.raised /\ cupo > b.mapas
         IN  [ret |-> IF guarda THEN [results |-> b.results] ELSE None,
              raised |-> ~guarda, consultas |-> b.mapas,
              json |-> IF guarda THEN [referencia |-> ref, capas |-> b.results] ELSE None,
              escritos |-> mapas \cup
                  (IF guarda THEN {Join(<<Comp(ref, <<>>), Comp(ref, <<"_afecciones_info.json">>)>>)}
                   ELSE {})]

Parcelas == {{0, 1, 2}, {0, 1, 2, 3}}

AfectInit ==
    /\ a_pc = "inicio"
    /\ a_parcela \in Parcelas
    /\ \/ /\ a_impl = "complete"
          /\ a_lee = TRUE
          /\ a_cupo \in 0..2
          /\ a_capas \in [1..Len(ServiciosWfs) -> CapaRedes]
       \/ /\ a_impl = "vector"
          /\ a_lee \in BOOLEAN
          /\ a_cupo \in 0..(MaxCapas + 1)
          /\ a_capas \in UNION {[1..n -> Contenidos] : n \in 0..MaxCapas}
    /\ a_out = None

AnalizarAfectaciones ==
    /\ a_pc = "inicio" /\ a_impl = "complete"
    /\ a_out' = analizar_afectaciones(<<"1">>, a_parcela, a_capas, a_cupo)
    /\ a_pc' = "fin"
    /\ UNCHANGED <<a_impl, a_lee, a_parcela, a_capas, a_cupo, no_overlay_vars>>

EjecutarAnalisisCompleto ==
    /\ a_pc = "inicio" /\ a_impl = "vector"
    /\ a_out' = Vector_ejecutar_analisis_completo(<<"1">>, a_lee, a_parcela, a_capas, a_cupo)
    /\ a_pc' = "fin"
    /\ UNCHANGED <<a_impl, a_lee, a_parcela, a_capas, a_cupo, no_overlay_vars>>

(***************************************************************************)
(* SpecWms: the map images of one run, in descargar_capas_multiples and in *)
(* CatastroDownloader.descargar_imagenes_wms; the requests sent are kept   *)
(***************************************************************************)
\* Longitudes and latitudes are whole millionths of a degree.
\* calcular_bbox: buffer_metros / 85000 and / 111000 degrees around the point
calcular_bbox(lon, lat, buffer_metros) ==
    LET buffer_lon == (buffer_metros * 1000000) \div 85000
        buffer_lat == (buffer_metros * 1000000) \div 111000
    IN  <<lon - buffer_lon, lat - buffer_lat, lon + buffer_lon, lat + buffer_lat>>

\* a request whose window depends on the layer asked for
PeticionWms_por_capa(coord, layers, bbox_metros) ==
    [LAYERS |-> layers,
     BBOX |-> calcular_bbox(coord.lon, coord.lat,
                            IF layers = "PNOA" THEN 2 * bbox_metros ELSE bbox_metros),
     WIDTH |-> IF layers = "PNOA" THEN "1200" ELSE "1600", HEIGHT |-> "1600"]

\* descargar_capa_wms: the params of its GetMap request
PeticionWms(coord, layers, bbox_metros) ==
    [LAYERS |-> layers, BBOX |-> calcular_bbox(coord.lon, coord.lat, bbox_metros),
     WIDTH |-> "1600", HEIGHT |-> "1600"]

\* descargar_imagenes_wms: buffer = 0.0018 and the bbox, made once before the
\* loop, and the params of the GetMap request of one layer
Engine_bbox(coord) ==
    <<coord.lon - 1800, coord.lat - 1800, coord.lon + 1800, coord.lat + 1800>>
Engine_PeticionWms(bbox, layer) ==
    [LAYERS |-> layer, BBOX |-> bbox, WIDTH |-> "1200", HEIGHT |-> "1200"]

\* the LAYERS value of each layer name, the same in both modules
LayersWms == [catastro |-> "Catastro", ortofoto |-> "PNOA", callejero |-> "Callejero",
              hidrografia |-> "Hidrografia"]

WmsInit ==
    /\ w_pc = "inicio"
    /\ w_impl \in {"complete", "engine"}
    /\ w_coords \in {[lon |-> x, lat |-> y] : x \in {-3703790, -16251800},
                                             y \in {40416775, 28463600}} \cup {None}
    /\ w_bbox = None /\ w_pendientes = <<>> /\ w_peticiones = <<>> /\ w_descargadas = {}

\* before the loop: the layers to ask for, and in the engine the bbox
IniciarImagenes ==
    /\ w_pc = "inicio" /\ HayCoordenadas(w_coords)
    /\ IF w_impl = "complete"
       THEN w_pendientes' = CapasWms /\ w_bbox' = None
       ELSE w_pendientes' = <<"ortofoto", "catastro">> /\ w_bbox' = [bbox |-> Engine_bbox(w_coords)]
    /\ w_pc' = "capas"
    /\ UNCHANGED <<w_impl, w_coords, w_peticiones, w_descargadas, no_wms_vars>>

\* without coordinates descargar_todo_completo goes on to its next step, and
\* the engine returns "error_coords": descargar_capas_multiples and
\* descargar_imagenes_wms are not called
OmitirImagenes ==
    /\ w_pc = "inicio" /\ ~HayCoordenadas(w_coords)
    /\ w_pc' = "fin"
    /\ UNCHANGED <<w_impl, w_coords, w_bbox, w_pendientes, w_peticiones, w_descargadas,
                   no_wms_vars>>

\* descargar_capas_multiples, one turn of its loop: descargar_capa_wms with
\* the default bbox_metros
DescargarCapaWms ==
    /\ w_pc = "capas" /\ w_impl = "complete" /\ w_pendientes # <<>>
    /\ \E env \in RedesLote(WmsResps), cupo \in 0..1 :
          LET nombre == Head(w_pendientes)
              p == descargar_capa_wms(<<"1">>, nombre, env, cupo)
          IN  /\ w_peticiones' = Append(w_peticiones,
                     [capa |-> nombre, zoom |-> 200,
                      params |-> PeticionWms(w_coords, LayersWms[nombre], 200)])
              /\ w_descargadas' = IF p.ret THEN w_descargadas \cup {nombre} ELSE w_descargadas
    /\ w_pendientes' = Tail(w_pendientes)
    /\ UNCHANGED <<w_pc, w_impl, w_coords, w_bbox, no_wms_vars>>

\* descargar_imagenes_wms, one turn of its loop: any 200 answer is written
Engine_DescargarImagen ==
    /\ w_pc = "capas" /\ w_impl = "engine" /\ w_pendientes # <<>>
    /\ \E env \in RedesLote(WmsResps), cupo \in 0..1 :
          LET nombre == Head(w_pendientes)
              g == requests_get(env)
          IN  /\ w_peticiones' = Append(w_peticiones,
                     [capa |-> nombre, zoom |-> 1800,
                      params |-> Engine_PeticionWms(w_bbox.bbox, LayersWms[nombre])])
              /\ w_descargadas' = IF ~g.raised /\ g.r.status = 200 /\ cupo >= 1
                                  THEN w_descargadas \cup {nombre} ELSE w_descargadas
    /\ w_pendientes' = Tail(w_pendientes)
    /\ UNCHANGED <<w_pc, w_impl, w_coords, w_bbox, no_wms_vars>>

\* after the loop
FinImagenes ==
    /\ w_pc = "capas" /\ w_pendientes = <<>>
    /\ w_pc' = "fin"
    /\ UNCHANGED <<w_impl, w_coords, w_bbox, w_pendientes, w_peticiones, w_descargadas,
                   no_wms_vars>>

(***************************************************************************)
(* Spec: procesar_lote over a list of references, each one taken through   *)
(* descargar_todo_completo step by step.  The list is drawn one reference  *)
(* at a time; referencias is the part of it consumed so far.               *)
(***************************************************************************)
\* the references given: one that is blank, one with a blank inside
Entradas == {<<" ">>, <<"a", " ", "1">>}

\* the answers of the lookups tried in the runs
JsonLote == {r \in JsonResps : r.body.json /\ r.body.data \in {JsonCoords, [ldt |-> "x"]}}
XmlLote == {r \in XmlResps : r.body.xml /\ r.body.data \in {XmlCoords, [otro |-> "x"]}}

\* ref = self.limpiar_referencia(referencia), line 621; every step applies
\* limpiar_referencia to it again
Ref == limpiar_referencia(referencia)

\* a step whose outcome is not written down
Anotar_olvida(res, clave, valor) == res

\* resultados[clave] = valor
Anotar(res, clave, valor) == [k \in DOMAIN res \cup {clave} |-> IF k = clave THEN valor ELSE res[k]]

LoteInit ==
    /\ pc = "lote"
    /\ referencias = <<>>
    /\ referencia = <<>>
    /\ GEOPANDAS_AVAILABLE \in BOOLEAN
    /\ disco = {OutputDir}
    /\ lote = <<>>
    /\ RunVacio

\* for ref in referencias: the call of descargar_todo_completo(ref)
SiguienteReferencia ==
    /\ pc = "lote"
    /\ Len(referencias) < MaxLote
    /\ \E r \in Entradas :
          /\ referencia' = r
          /\ referencias' = Append(referencias, r)
    /\ pc' = "carpetas"
    /\ UNCHANGED <<GEOPANDAS_AVAILABLE, lote, disco, escritos, capas_vars, afect_vars,
                   run_vars, no_lote_vars>>

\* lines 621-640: ref_dir and its six subfolders
CrearCarpetas ==
    /\ pc = "carpetas"
    /\ \E cupo \in 0..Len(Arbol(Ref)) :
          LET m == CrearArbol(Arbol(Ref), disco, cupo)
          IN  /\ disco' = m.disco
              /\ pc' = IF m.raised THEN "excepcion" ELSE "consulta"
    /\ escritos' = {}
    /\ UNCHANGED <<bucle_vars, capas_vars, afect_vars, run_vars,
                   no_lote_vars>>

\* 1. Consulta descriptiva
PasoConsulta ==
    /\ pc = "consulta"
    /\ \E env \in RedesLote(JsonResps), cupo \in 0..2 :
          LET p == descargar_consulta_descriptiva(limpiar_referencia(Ref), env, cupo)
          IN  /\ resultados' = Anotar(resultados, "consulta_descriptiva", p.ret)
              /\ escritos' = p.escritos
    /\ pc' = "parcela"
    /\ UNCHANGED <<bucle_vars, disco, capas_vars, afect_vars, archivo_parcela_gml, coords,
                   zip_path, retorno, no_lote_vars>>

\* 2. Parcela GML
PasoParcela ==
    /\ pc = "parcela"
    /\ \E env \in RedesLote(GeomResps), proj_ok \in BOOLEAN, cupo \in 0..2 :
          LET p == descargar_parcela_gml(limpiar_referencia(Ref), GEOPANDAS_AVAILABLE,
                                         proj_ok, env, cupo)
          IN  /\ archivo_parcela_gml' = p.ret
              /\ resultados' = Anotar(resultados, "parcela_gml", p.ret # NoFile)
              /\ escritos' = p.escritos
    /\ pc' = "coordenadas"
    /\ UNCHANGED <<bucle_vars, disco, capas_vars, afect_vars, coords, zip_path, retorno,
                   no_lote_vars>>

\* 3. Coordenadas, and the test that guards step 4
PasoCoordenadas ==
    /\ pc = "coordenadas"
    /\ \E proj_ok \in BOOLEAN, json_env \in RedesLote(JsonLote), xml_env \in RedesLote(XmlLote) :
          LET c == obtener_coordenadas(archivo_parcela_gml, GEOPANDAS_AVAILABLE, proj_ok,
                                       json_env, xml_env).coords
          IN  /\ coords' = c
              /\ IF HayCoordenadas(c)
                 THEN pc' = "capas" /\ capas_pendientes' = CapasWms
                 ELSE pc' = "edificio" /\ capas_pendientes' = <<>>
    /\ escritos' = {}
    /\ UNCHANGED <<bucle_vars, disco, capas_descargadas, afect_vars, archivo_parcela_gml,
                   resultados, zip_path, retorno, no_lote_vars>>

\* 4. descargar_capas_multiples, one turn of its loop over self.capas_wms
DescargarCapa ==
    /\ pc = "capas"
    /\ capas_pendientes # <<>>
    /\ \E env \in RedesLote(WmsResps), cupo \in 0..1 :
          LET nombre == Head(capas_pendientes)
              p == descargar_capa_wms(limpiar_referencia(limpiar_referencia(Ref)),
                                      nombre, env, cupo)
          IN  /\ capas_descargadas' = IF p.ret THEN capas_descargadas \cup {nombre}
                                      ELSE capas_descargadas
              /\ escritos' = p.escritos
    /\ capas_pendientes' = Tail(capas_pendientes)
    /\ UNCHANGED <<pc, bucle_vars, disco, afect_vars, run_vars, no_lote_vars>>

\* 4. descargar_capas_multiples after its loop, and resultados['capas_wms']
FinCapas ==
    /\ pc = "capas"
    /\ capas_pendientes = <<>>
    /\ \E PILLOW_AVAILABLE \in BOOLEAN, cupo \in 0..1 :
          LET p == FinCapasMultiples(limpiar_referencia(Ref), capas_descargadas,
                                     PILLOW_AVAILABLE, cupo)
          IN  /\ resultados' = Anotar(resultados, "capas_wms", p.ret)
              /\ escritos' = p.escritos
    /\ capas_descargadas' = {}
    /\ pc' = "edificio"
    /\ UNCHANGED <<bucle_vars, disco, capas_pendientes, afect_vars, archivo_parcela_gml,
                   coords, zip_path, retorno, no_lote_vars>>

\* 5. Edificio GML
PasoEdificio ==
    /\ pc = "edificio"
    /\ \E env \in RedesLote(GeomResps), cupo \in 0..1 :
          LET p == descargar_edificio_gml(limpiar_referencia(Ref), env, cupo)
          IN  /\ resultados' = Anotar(resultados, "edificio_gml", p.ret)
              /\ escritos' = p.escritos
    /\ pc' = "ficha"
    /\ UNCHANGED <<bucle_vars, disco, capas_vars, afect_vars, archivo_parcela_gml, coords,
                   zip_path, retorno, no_lote_vars>>

\* 6. Ficha catastral
PasoFicha ==
    /\ pc = "ficha"
    /\ \E env_pdf \in RedesLote(FichaResps), env_xml \in RedesLote(FichaResps), cupo \in 0..1 :
          LET p == descargar_ficha_catastral(limpiar_referencia(Ref), env_pdf, env_xml, cupo)
          IN  /\ resultados' = Anotar(resultados, "ficha_catastral", p.ret)
              /\ escritos' = p.escritos
    /\ pc' = "afectaciones"
    /\ UNCHANGED <<bucle_vars, disco, capas_vars, afect_vars, archivo_parcela_gml, coords,
                   zip_path, retorno, no_lote_vars>>

\* 7. Analisis de afectaciones: the guard of line 671 and analizar_afectaciones
\* down to its loop (the parcel read and reprojected)
AbrirParcela ==
    /\ pc = "afectaciones"
    /\ \E proj_ok \in BOOLEAN :
          IF archivo_parcela_gml # NoFile /\ GEOPANDAS_AVAILABLE
             /\ LeeParcela(archivo_parcela_gml) /\ proj_ok
          THEN /\ servicios_pendientes' = ServiciosWfs
               /\ pc' = "servicios"
               /\ UNCHANGED resultados
          ELSE /\ servicios_pendientes' = <<>>
               /\ pc' = "sigpac"
               /\ resultados' = Anotar(resultados, "analisis_afectaciones", FALSE)
    /\ escritos' = {}
    /\ UNCHANGED <<bucle_vars, disco, capas_vars, afectaciones_detectadas,
                   archivo_parcela_gml, coords, zip_path, retorno,
                   no_lote_vars>>

\* 7. analizar_afectaciones, one turn of its loop over self.servicios_wfs
ConsultarServicio ==
    /\ pc = "servicios"
    /\ servicios_pendientes # <<>>
    /\ \E env \in RedesLote(WfsResps), capa \in ResultadosCapa :
          afectaciones_detectadas' =
              IF ConsultarServicioWfs(env, capa)
              THEN afectaciones_detectadas \cup {Head(servicios_pendientes)}
              ELSE afectaciones_detectadas
    /\ servicios_pendientes' = Tail(servicios_pendientes)
    /\ escritos' = {}
    /\ UNCHANGED <<pc, bucle_vars, disco, capas_vars, run_vars, no_lote_vars>>

\* 7. analizar_afectaciones after its loop, and resultados['analisis_afectaciones']
FinServicios ==
    /\ pc = "servicios"
    /\ servicios_pendientes = <<>>
    /\ \E cupo \in 0..2 :
          LET p == FinAfectaciones(limpiar_referencia(Ref), cupo)
          IN  /\ resultados' = Anotar(resultados, "analisis_afectaciones", p.ret)
              /\ escritos' = p.escritos
    /\ afectaciones_detectadas' = {}
    /\ pc' = "sigpac"
    /\ UNCHANGED <<bucle_vars, disco, capas_vars, servicios_pendientes, archivo_parcela_gml,
                   coords, zip_path, retorno, no_lote_vars>>

\* 8. PDF SIGPAC
PasoSigpac ==
    /\ pc = "sigpac"
    /\ IF GEOPANDAS_AVAILABLE
       THEN \E proj_ok \in BOOLEAN, json_env \in RedesLote(JsonLote),
               xml_env \in RedesLote(XmlLote), env \in RedesLote(SigpacResps), cupo \in 0..1 :
               LET p == descargar_pdf_sigpac(limpiar_referencia(Ref), proj_ok,
                                             json_env, xml_env, env, cupo)
               IN  /\ resultados' = Anotar(resultados, "pdf_sigpac", p.ret)
                   /\ escritos' = p.escritos
                   /\ coords_sigpac' = p.coords
       ELSE /\ resultados' = Anotar(resultados, "pdf_sigpac", FALSE)
            /\ escritos' = {}
            /\ UNCHANGED coords_sigpac
    /\ pc' = "zip"
    /\ UNCHANGED <<bucle_vars, disco, capas_vars, afect_vars, archivo_parcela_gml, coords,
                   zip_path, retorno, ajenas_vars>>

\* 9. ZIP
PasoZip ==
    /\ pc = "zip"
    /\ \E cupo \in 0..1 :
          LET p == crear_zip_comprimido(Ref, cupo)
          IN  /\ zip_path' = p.ret
              /\ resultados' = Anotar(resultados, "zip_creado", p.ret # None)
              /\ escritos' = p.escritos
    /\ pc' = "resumen"
    /\ UNCHANGED <<bucle_vars, disco, capas_vars, afect_vars, archivo_parcela_gml, coords,
                   retorno, no_lote_vars>>

\* lines 701-703: the tally and the return value
Resumen ==
    /\ pc = "resumen"
    /\ retorno' = [exito |-> Exito(resultados), zip_path |-> zip_path]
    /\ escritos' = {}
    /\ pc' = "retorno"
    /\ UNCHANGED <<bucle_vars, disco, capas_vars, afect_vars, archivo_parcela_gml, coords,
                   resultados, zip_path, no_lote_vars>>

\* procesar_lote, line 730: resultados[ref] = (exito, zip_path); the locals of
\* the finished call are gone
AnotarResultado ==
    /\ pc = "retorno"
    /\ lote' = Anotar(lote, referencia, retorno)
    /\ escritos' = {} /\ archivo_parcela_gml' = NoFile /\ coords' = None
    /\ capas_pendientes' = <<>> /\ capas_descargadas' = {}
    /\ servicios_pendientes' = <<>> /\ afectaciones_detectadas' = {}
    /\ resultados' = <<>> /\ zip_path' = None /\ retorno' = None
    /\ coords_sigpac' = None
    /\ pc' = "lote"
    /\ UNCHANGED <<referencias, referencia, GEOPANDAS_AVAILABLE, disco,
                   ajenas_vars>>

\* procesar_lote returns its map
FinLote ==
    /\ pc = "lote"
    /\ pc' = "fin"
    /\ UNCHANGED <<bucle_vars, disco, escritos, capas_vars, afect_vars, run_vars,
                   no_lote_vars>>

(***************************************************************************)
(* SpecPar: descargar_todo_completo called for two different reference     *)
(* strings over the same output_dir, their steps interleaved.  p_disco is  *)
(* the files under output_dir; p_escritos[i] the files call i has written, *)
(* p_leidos[i] the files it has read into its archive.                     *)
(***************************************************************************)
\* the strings the two calls are given
ParEntradas == {<<" ">>, <<"a", " ", "1">>, <<"a", "1">>, <<"b">>}

\* ref_dir.rglob('*') with is_file(): the files at any depth under dir
Rglob(dir, archivos) ==
    {f \in archivos : /\ Len(dir.partes) <= Len(f.partes)
                      /\ SubSeq(f.partes, 1, Len(dir.partes)) = dir.partes}

\* ref of call i, line 621
ParRef(i) == limpiar_referencia(p_refs[i])

ParInit ==
    /\ p_refs \in {r \in ParEntradas \X ParEntradas : r[1] # r[2]}
    /\ p_pc = <<"carpetas", "carpetas">>
    /\ p_disco = {}
    /\ p_escritos = <<{}, {}>>
    /\ p_leidos = <<{}, {}>>

\* lines 624-638: the directories, made or found there
ParCarpetas(i) ==
    /\ p_pc[i] = "carpetas"
    /\ p_pc' = [p_pc EXCEPT ![i] = "consulta"]
    /\ UNCHANGED <<p_refs, p_disco, p_escritos, p_leidos, no_par_vars>>

\* one of the steps 1 to 8 that writes under ref_dir: the descriptive query
\* and the building geometry stand for them; the write may fail
ParPaso(i) ==
    /\ p_pc[i] \in {"consulta", "edificio"}
    /\ \E ok \in BOOLEAN :
          LET f == IF p_pc[i] = "consulta"
                   THEN Ruta(limpiar_referencia(ParRef(i)), "json",
                             <<"_consulta_descriptiva.json">>)
                   ELSE Ruta(limpiar_referencia(ParRef(i)), "gml", <<"_edificio.gml">>)
              w == IF ok THEN {f} ELSE {}
          IN  /\ p_disco' = p_disco \cup w
              /\ p_escritos' = [p_escritos EXCEPT ![i] = @ \cup w]
    /\ p_pc' = [p_pc EXCEPT ![i] = IF @ = "consulta" THEN "edificio" ELSE "zip"]
    /\ UNCHANGED <<p_refs, p_leidos, no_par_vars>>

\* crear_zip_comprimido(ref, ref_dir): the archive is opened for writing,
\* then every file found under ref_dir is read into it
ParZip(i) ==
    /\ p_pc[i] = "zip"
    /\ \E ok \in BOOLEAN :
          LET z == IF ok THEN {RutaZip(ParRef(i))} ELSE {}
          IN  /\ p_disco' = p_disco \cup z
              /\ p_escritos' = [p_escritos EXCEPT ![i] = @ \cup z]
              /\ p_leidos' = [p_leidos EXCEPT ![i] =
                                 IF ok THEN Rglob(RefDir(ParRef(i)), p_disco \cup z) ELSE {}]
    /\ p_pc' = [p_pc EXCEPT ![i] = "fin"]
    /\ UNCHANGED <<p_refs, no_par_vars>>

(***************************************************************************)
(* SpecOrto: LocalLayersManager.generar_ortofotos_multi_escala, one turn   *)
(* of its loop at a time.  o_disco is the images under                     *)
(* outputs/<ref>/ortophotos, each with the buffer it was drawn with.        *)
(***************************************************************************)
max_buffer == 10000

\* the three scales, by their "buffer"
Escalas == <<[title |-> "Vista Regional", buffer |-> 50000],
             [title |-> "Vista Local", buffer |-> 5000],
             [title |-> "Vista Detallada", buffer |-> 1000]>>

\* generar_ortofoto_local: the file name it returns and the image it saves;
\* ok = FALSE: drawing or saving raises, caught
generar_ortofoto_local(ref, coord, buffer_metros, geopandas, ok) ==
    IF ~geopandas \/ ~ok THEN [ret |-> None, imagen |-> None]
    ELSE LET b == IF buffer_metros > max_buffer THEN max_buffer ELSE buffer_metros
             filename == [ref |-> ref, name |-> <<"ortofoto_local_", b, "m.png">>]
         IN  [ret |-> filename,
              imagen |-> [archivo |-> filename, buffer |-> b, centro |-> coord]]

OrtoInit ==
    /\ o_pc = "bucle"
    /\ o_ref \in {<<"a", "1">>, <<"b">>}
    /\ o_coords \in {[lon |-> x, lat |-> y] : x \in {-3703790, -16251800},
                                             y \in {40416775, 28463600}}
    /\ o_geopandas \in BOOLEAN
    /\ o_pendientes = Escalas
    /\ o_disco = {}
    /\ o_ortophotos = <<>>

\* one turn of the loop over escalas
OrtoEscala ==
    /\ o_pc = "bucle" /\ o_pendientes # <<>>
    /\ \E ok \in BOOLEAN :
          LET escala == Head(o_pendientes)
              g == generar_ortofoto_local(o_ref, o_coords, escala.buffer, o_geopandas, ok)
          IN  IF g.ret # None
              THEN /\ o_disco' = {i \in o_disco : i.archivo # g.ret} \cup {g.imagen}
                   /\ o_ortophotos' = Append(o_ortophotos,
                          [title |-> escala.title,
                           url |-> [outputs |-> g.ret.ref, ortophotos |-> g.ret.name],
                           buffer |-> escala.buffer])
              ELSE UNCHANGED <<o_disco, o_ortophotos>>
    /\ o_pendientes' = Tail(o_pendientes)
    /\ UNCHANGED <<o_pc, o_ref, o_coords, o_geopandas, no_orto_vars>>

\* return ortophotos
OrtoFin ==
    /\ o_pc = "bucle" /\ o_pendientes = <<>>
    /\ o_pc' = "fin"
    /\ UNCHANGED <<o_ref, o_coords, o_geopandas, o_pendientes, o_disco, o_ortophotos,
                   no_orto_vars>>

(***************************************************************************)
(* SpecHttp: the safe_get calls of one run of descargar_todo_completo and  *)
(* the request attempts they make, counted in k_llamadas and k_intentos.   *)
(* k_archivo is the parcel file of the run, k_coords whether step 3 gave   *)
(* coordinates, k_pendientes the turns left of the loop the run is in.     *)
(***************************************************************************)
\* the network of one call: it answers r at once, or on the last attempt
\* safe_get makes, or not within MaxFallos attempts
RedesDe(resps) ==
    {Red(f, r, DefaultMaxRetries + 2) : f \in {0, DefaultMaxRetries, MaxFallos}, r \in resps}

HttpInit ==
    /\ k_pc = "consulta"
    /\ k_geopandas \in BOOLEAN
    /\ k_archivo = NoFile /\ k_coords = FALSE /\ k_pendientes = 0
    /\ k_llamadas = 0 /\ k_intentos = 0

\* a step, or a turn of a loop, that makes one call: the descriptive query,
\* a WMS layer, the building geometry, an overlay service
HttpPeticion ==
    /\ k_pc \in {"consulta", "capas", "edificio", "servicios"}
    /\ \E env \in RedesDe({Resp(200, [nada |-> TRUE])}) :
          k_intentos' = k_intentos + safe_get(env, DefaultMaxRetries).attempts
    /\ k_llamadas' = k_llamadas + 1
    /\ k_pendientes' = IF k_pc \in {"capas", "servicios"} THEN k_pendientes - 1 ELSE 0
    /\ k_pc' = CASE k_pc = "consulta" -> "parcela"
                 [] k_pc = "capas" -> IF k_pendientes = 1 THEN "edificio" ELSE "capas"
                 [] k_pc = "edificio" -> "ficha"
                 [] k_pc = "servicios" -> IF k_pendientes = 1 THEN "sigpac" ELSE "servicios"
    /\ UNCHANGED <<k_geopandas, k_archivo, k_coords, no_http_vars>>

\* 2. descargar_parcela_gml: one call
HttpParcela ==
    /\ k_pc = "parcela"
    /\ \E env \in RedesDe(GeomResps), proj_ok \in BOOLEAN, cupo \in 0..2 :
          /\ k_archivo' = descargar_parcela_gml(<<"1">>, k_geopandas, proj_ok, env, cupo).ret
          /\ k_intentos' = k_intentos + safe_get(env, DefaultMaxRetries).attempts
    /\ k_llamadas' = k_llamadas + 1
    /\ k_pc' = "coordenadas"
    /\ UNCHANGED <<k_geopandas, k_coords, k_pendientes, no_http_vars>>

\* 3. obtener_coordenadas: a call for each lookup consulted
HttpCoordenadas ==
    /\ k_pc = "coordenadas"
    /\ \E proj_ok \in BOOLEAN, json_env \in RedesDe(JsonLote), xml_env \in RedesDe(XmlLote) :
          LET o == obtener_coordenadas(k_archivo, k_geopandas, proj_ok, json_env, xml_env)
          IN  /\ k_llamadas' = k_llamadas + Cardinality({j \in 1..Len(o.consultas) :
                                                     o.consultas[j].fuente # "GML"})
              /\ k_intentos' = k_intentos + o.intentos
              /\ k_coords' = HayCoordenadas(o.coords)
              /\ k_pc' = IF HayCoordenadas(o.coords) THEN "capas" ELSE "edificio"
              /\ k_pendientes' = IF HayCoordenadas(o.coords) THEN Len(CapasWms) ELSE 0
    /\ UNCHANGED <<k_geopandas, k_archivo, no_http_vars>>

\* 6. descargar_ficha_catastral: the PDF, and the XML unless the PDF was saved
HttpFicha ==
    /\ k_pc = "ficha"
    /\ \E env_pdf \in RedesDe(FichaResps), env_xml \in RedesDe(FichaResps), cupo \in 0..1 :
          LET g1 == safe_get(env_pdf, DefaultMaxRetries)
              pdf == ~g1.raised /\ g1.r.status = 200 /\ g1.r.body.inicio = "%PDF" /\ cupo >= 1
              g2 == safe_get(env_xml, DefaultMaxRetries)
          IN  /\ k_llamadas' = k_llamadas + (IF pdf THEN 1 ELSE 2)
              /\ k_intentos' = k_intentos + g1.attempts + (IF pdf THEN 0 ELSE g2.attempts)
    /\ k_pc' = "afectaciones"
    /\ UNCHANGED <<k_geopandas, k_archivo, k_coords, k_pendientes, no_http_vars>>

\* 7. the guard of line 671 and analizar_afectaciones down to its loop
HttpAbrirParcela ==
    /\ k_pc = "afectaciones"
    /\ \E proj_ok \in BOOLEAN :
          IF k_archivo # NoFile /\ k_geopandas /\ LeeParcela(k_archivo) /\ proj_ok
          THEN k_pc' = "servicios" /\ k_pendientes' = Len(ServiciosWfs)
          ELSE k_pc' = "sigpac" /\ k_pendientes' = 0
    /\ UNCHANGED <<k_geopandas, k_archivo, k_coords, k_llamadas, k_intentos, no_http_vars>>

\* 8. descargar_pdf_sigpac: its own lookups, then the POST when it has
\* coordinates and they reproject
HttpSigpac ==
    /\ k_pc = "sigpac"
    /\ IF k_geopandas
       THEN \E proj_ok \in BOOLEAN, json_env \in RedesDe(JsonLote),
               xml_env \in RedesDe(XmlLote), env \in RedesDe({Resp(200, [nada |-> TRUE])}) :
               LET o == obtener_coordenadas(NoFile, TRUE, proj_ok, json_env, xml_env)
                   post == o.coords # None /\ proj_ok
                   g == safe_get(env, DefaultMaxRetries)
               IN  /\ k_llamadas' = k_llamadas + Len(o.consultas) + (IF post THEN 1 ELSE 0)
                   /\ k_intentos' = k_intentos + o.intentos + (IF post THEN g.attempts ELSE 0)
       ELSE UNCHANGED <<k_llamadas, k_intentos>>
    /\ k_pc' = "zip"
    /\ UNCHANGED <<k_geopandas, k_archivo, k_coords, k_pendientes, no_http_vars>>

(***************************************************************************)
(* Specifications                                                          *)
(***************************************************************************)
InitNorm == NormInit /\ SgIdle /\ CoordIdle /\ GeomIdle /\ AfectIdle /\ WmsIdle /\ SigpacIdle /\ ParIdle /\ OrtoIdle /\ HttpIdle /\ LoteIdle
NextNorm == NormLimpiar \/ NormRelimpiar
SpecNorm == InitNorm /\ [][NextNorm]_vars

InitSafeGet == SgInit /\ NormIdle /\ CoordIdle /\ GeomIdle /\ AfectIdle /\ WmsIdle /\ SigpacIdle /\ ParIdle /\ OrtoIdle /\ HttpIdle /\ LoteIdle
NextSafeGet == SgLlamar
SpecSafeGet == InitSafeGet /\ [][NextSafeGet]_vars

InitCoord == CoordInit /\ NormIdle /\ SgIdle /\ GeomIdle /\ AfectIdle /\ WmsIdle /\ SigpacIdle /\ ParIdle /\ OrtoIdle /\ HttpIdle /\ LoteIdle
NextCoord == CoordResolver \/ CoordDatos
SpecCoord == InitCoord /\ [][NextCoord]_vars

InitAfect == AfectInit /\ NormIdle /\ SgIdle /\ CoordIdle /\ GeomIdle /\ WmsIdle /\ SigpacIdle /\ ParIdle /\ OrtoIdle /\ HttpIdle /\ LoteIdle
NextAfect == AnalizarAfectaciones \/ EjecutarAnalisisCompleto
SpecAfect == InitAfect /\ [][NextAfect]_vars

InitWms == WmsInit /\ NormIdle /\ SgIdle /\ CoordIdle /\ GeomIdle /\ AfectIdle /\ SigpacIdle /\ ParIdle /\ OrtoIdle /\ HttpIdle /\ LoteIdle
NextWms ==
    \/ IniciarImagenes \/ OmitirImagenes \/ DescargarCapaWms \/ Engine_DescargarImagen
    \/ FinImagenes
SpecWms == InitWms /\ [][NextWms]_vars

InitGeom == GeomInit /\ NormIdle /\ SgIdle /\ CoordIdle /\ AfectIdle /\ WmsIdle /\ SigpacIdle /\ ParIdle /\ OrtoIdle /\ HttpIdle /\ LoteIdle
NextGeom == GeomDescargar
SpecGeom == InitGeom /\ [][NextGeom]_vars

Init == LoteInit /\ NormIdle /\ SgIdle /\ CoordIdle /\ GeomIdle /\ AfectIdle /\ WmsIdle /\ SigpacIdle /\ ParIdle /\ OrtoIdle /\ HttpIdle
Next ==
    \/ SiguienteReferencia \/ CrearCarpetas \/ PasoConsulta \/ PasoParcela
    \/ PasoCoordenadas \/ DescargarCapa \/ FinCapas \/ PasoEdificio \/ PasoFicha
    \/ AbrirParcela \/ ConsultarServicio \/ FinServicios \/ PasoSigpac \/ PasoZip
    \/ Resumen \/ AnotarResultado \/ FinLote
Spec == Init /\ [][Next]_vars

InitPar ==
    ParInit /\ NormIdle /\ SgIdle /\ CoordIdle /\ GeomIdle /\ AfectIdle /\ WmsIdle
    /\ SigpacIdle /\ OrtoIdle /\ HttpIdle /\ LoteIdle
NextPar == \E i \in 1..2 : ParCarpetas(i) \/ ParPaso(i) \/ ParZip(i)
SpecPar == InitPar /\ [][NextPar]_vars

InitOrto ==
    OrtoInit /\ NormIdle /\ SgIdle /\ CoordIdle /\ GeomIdle /\ AfectIdle /\ WmsIdle
    /\ SigpacIdle /\ ParIdle /\ HttpIdle /\ LoteIdle
NextOrto == OrtoEscala \/ OrtoFin
SpecOrto == InitOrto /\ [][NextOrto]_vars

InitHttp ==
    HttpInit /\ NormIdle /\ SgIdle /\ CoordIdle /\ GeomIdle /\ AfectIdle /\ WmsIdle
    /\ SigpacIdle /\ ParIdle /\ OrtoIdle /\ LoteIdle
NextHttp ==
    \/ HttpPeticion \/ HttpParcela \/ HttpCoordenadas \/ HttpFicha \/ HttpAbrirParcela
    \/ HttpSigpac
SpecHttp == InitHttp /\ [][NextHttp]_vars
\* every request returns or times out, so a run that can take a step takes it
SpecHttpFair == SpecHttp /\ WF_vars(NextHttp)

(***************************************************************************)
(* Helpers of the properties                                               *)
(***************************************************************************)
Fuentes(consultas) == [k \in 1..Len(consultas) |-> consultas[k].fuente]

Consultada(consultas, fuente) == \E k \in 1..Len(consultas) : consultas[k].fuente = fuente

IsPrefix(p, q) == Len(p) <= Len(q) /\ SubSeq(q, 1, Len(p)) = p

\* request attempts one lookup makes at most in an implementation
IntentosDe(impl) == IF impl = "engine" THEN 1 ELSE DefaultMaxRetries + 1

\* the network answers the lookup, within the attempts made, with r, and ok(r)
Responde(impl, env, ok(_)) ==
    \E j \in 1..IntentosDe(impl) :
        /\ ~env[j].exc
        /\ \A h \in 1..(j - 1) : env[h].exc
        /\ ok(env[j])

JsonValida(r) == r.status = 200 /\ r.body.json /\ r.body.data = JsonCoords
XmlValida(r)  == r.status = 200 /\ r.body.xml /\ r.body.data = XmlCoords

(***************************************************************************)
(* Properties                                                              *)
(***************************************************************************)

\* the keys of resultados, one for each step of the fixed sequence
Pasos == {"consulta_descriptiva", "parcela_gml", "capas_wms", "edificio_gml",
          "ficha_catastral", "analisis_afectaciones", "pdf_sigpac", "zip_creado"}

\* C1: descargar_todo_completo never raises, whatever the network and the
\* filesystem do: no run ends with an exception leaving the call.
C1_NuncaLanza == pc # "excepcion"

\* C2: the overall success flag is true only if every step of the sequence
\* was run and succeeded; a run in which a step was skipped returns false.
C2_ExitoSoloSiTodos ==
    (pc = "retorno" /\ retorno.exito) =>
        \A k \in Pasos : k \in DOMAIN resultados /\ resultados[k]

\* C3: procesar_lote returns a map with one entry for each element of the
\* list it was given, and no exception leaves the batch call.
C3_UnaEntradaPorReferencia ==
    /\ pc # "excepcion"
    /\ pc = "fin" => Cardinality(DOMAIN lote) = Len(referencias)
    /\ pc \in {"lote", "fin"} =>
           \A k \in 1..Len(referencias) : referencias[k] \in DOMAIN lote

\* C4: coordinate resolution short-circuits on the first success: nothing is
\* consulted after a source that gave coordinates, and when the JSON lookup
\* answers 200 with numeric geo.xcen and geo.ycen the XML lookup is not queried.
C4_CortoCircuito ==
    c_pc = "fin" =>
        /\ \A k \in 1..Len(c_out.consultas) :
               c_out.consultas[k].dio => k = Len(c_out.consultas)
        /\ (Consultada(c_out.consultas, "JSON") /\ Responde(c_impl, c_json, JsonValida))
               => ~Consultada(c_out.consultas, "XML")

\* the JSON lookup gave the coordinates although the XML lookup would have
\* answered as well
C4_Witness ==
    /\ c_pc = "fin"
    /\ c_impl = "complete"
    /\ Fuentes(c_out.consultas) = <<"GML", "JSON">>
    /\ c_out.coords = [lon |-> 1, lat |-> 2, srs |-> "EPSG:4326"]
    /\ Responde(c_impl, c_xml, XmlValida)

\* C5 as stated: whenever a parcel geometry file exists, the geometry file is
\* the first source consulted, before any lookup service.
C5_GmlSiemprePrimero ==
    (c_pc = "fin" /\ c_impl \in {"complete", "engine"} /\ c_gml # NoFile) =>
        /\ c_out.consultas # <<>>
        /\ c_out.consultas[1].fuente = "GML"

\* C5 amended: CatastroCompleteDownloader.obtener_coordenadas, given an
\* existing geometry file, consults geometry file, JSON lookup, XML lookup in
\* that order; CatastroDownloader (catastro_engine) consults JSON lookup, XML
\* lookup and only then the geometry it fetched.
C5_OrdenFuentes ==
    c_pc = "fin" =>
        /\ c_impl = "complete" =>
               /\ c_out.consultas # <<>>
               /\ IsPrefix(Fuentes(c_out.consultas),
                           IF c_gml # NoFile THEN <<"GML", "JSON", "XML">>
                           ELSE <<"JSON", "XML">>)
        /\ c_impl = "engine" =>
               /\ c_out.consultas # <<>>
               /\ IsPrefix(Fuentes(c_out.consultas), <<"JSON", "XML", "GML">>)

\* the geometry file was read first and gave nothing, then both lookups ran
C5_Witness ==
    /\ c_pc = "fin"
    /\ c_impl = "complete"
    /\ c_gml # NoFile
    /\ Fuentes(c_out.consultas) = <<"GML", "JSON", "XML">>
    /\ c_out.coords # None

\* C6: the resolution returns None only if every source was tried and failed:
\* both lookups (and the geometry file when there is one) were consulted,
\* none gave coordinates, and neither lookup answered with valid coordinates.
C6_NoneSoloSiTodasFallan ==
    (c_pc = "fin" /\ c_out.coords = None) =>
        /\ Consultada(c_out.consultas, "JSON")
        /\ Consultada(c_out.consultas, "XML")
        /\ (c_impl \in {"complete", "engine"} /\ c_gml # NoFile)
               => Consultada(c_out.consultas, "GML")
        /\ \A k \in 1..Len(c_out.consultas) : ~c_out.consultas[k].dio
        /\ ~Responde(c_impl, c_json, JsonValida)
        /\ ~Responde(c_impl, c_xml, XmlValida)

\* the JSON lookup answered with a non-200 status, the cascade went on and the
\* XML lookup gave the coordinates
C6_Witness ==
    /\ c_pc = "fin"
    /\ c_impl = "complete"
    /\ c_json[1] = Resp(404, [json |-> TRUE, data |-> JsonCoords])
    /\ Fuentes(c_out.consultas) = <<"GML", "JSON", "XML">>
    /\ c_out.coords = [lon |-> 2, lat |-> 1, srs |-> "EPSG:4326"]

\* C7: safe_get makes at most 1 + max_retries attempts, every attempt but the
\* last met a transport exception, the first response received is returned
\* whatever its status, and the call raises exactly when all 1 + max_retries
\* attempts met a transport exception.
C7_SafeGetAcotado ==
    sg_pc = "fin" =>
        /\ sg_out.attempts >= 1
        /\ sg_out.attempts <= 1 + sg_max
        /\ \A j \in 1..(sg_out.attempts - 1) : sg_env[j].exc
        /\ sg_out.raised <=> (\A j \in 1..(1 + sg_max) : sg_env[j].exc)
        /\ sg_out.raised => sg_out.attempts = 1 + sg_max
        /\ ~sg_out.raised => (~sg_env[sg_out.attempts].exc /\ sg_out.r = sg_env[sg_out.attempts])

\* two transport failures, then a non-200 response that is returned as it is
C7_Witness ==
    /\ sg_pc = "fin"
    /\ sg_max = DefaultMaxRetries
    /\ sg_out.attempts = 3
    /\ ~sg_out.raised
    /\ sg_out.r.status = 500
    /\ ~sg_env[4].exc

\* C8: normalisation is idempotent in each implementation.
C8_Idempotente == n_pc = "relimpio" => n_relimpio = n_limpio

\* a reference the normalisation changes, normalised twice
C8_Witness ==
    /\ n_pc = "relimpio"
    /\ n_texto = <<" ", "a", " ", "1">>
    /\ n_limpio = <<"a", "1">>

\* C9: the normalised reference holds no whitespace character and no
\* lowercase letter.
C9_SinEspaciosNiMinusculas ==
    (n_pc \in {"limpio", "relimpio"} /\ n_impl \in {"complete", "urban"}) =>
        \A k \in 1..Len(n_limpio) : ~IsSpace(n_limpio[k]) /\ ~IsLower(n_limpio[k])

\* C10: nothing is made for a reference whose normalised form is empty: every
\* directory under output_dir and every file written carries a non-empty
\* reference in its first component.
C10_NadaParaReferenciaVacia ==
    \A p \in disco \cup escritos : p # OutputDir => p.partes[1].ref # <<>>

(***************************************************************************)
(* Geometry fetches                                                        *)
(***************************************************************************)
\* what the last attempt meets: the response the feature service gives to a
\* request that gets through, or one more transport failure
GeomRespuesta == g_env[DefaultMaxRetries + 1]

\* C11: a geometry response that carries the exception-report marker is
\* rejected whatever its status, 200 included: the fetch returns None and
\* writes no geometry file, in the parcel fetch, the building fetch and the
\* two parcel fetches of the other modules.
C11_MarcaRechazada ==
    (g_pc = "fin" /\ ~GeomRespuesta.exc /\ GeomRespuesta.body.er) =>
        (~g_out.ret /\ g_out.escritos = {})

\* the building fetch met at its first attempt a 200 response with the
\* marker, long enough to pass the size test, with room on the disk
C11_Witness ==
    /\ g_pc = "fin" /\ g_fn = "edificio"
    /\ g_env[1] = GeomRespuesta /\ GeomRespuesta.status = 200
    /\ GeomRespuesta.body.er /\ GeomRespuesta.body.len > UmbralGml
    /\ g_cupo >= 1 /\ ~g_out.ret /\ g_out.escritos = {}

\* the first two characters of the reference name a province of the Canary
\* Islands
EsCanaria(ref) == Len(ref) >= 2 /\ SubSeq(ref, 1, 2) \in {<<"3", "5">>, <<"3", "8">>}

\* C12: the projected CRS asked of the feature service and assumed when the
\* geometry is read back follows the first two characters of the reference:
\* "35" or "38" gives the Canary UTM zone, any other prefix EPSG:25830.
C12_CrsSegunProvincia ==
    (g_pc = "fin" /\ g_fn \in {"parcela", "edificio"}) =>
        /\ (g_out.srsname = "EPSG:25830") <=> ~EsCanaria(g_ref)
        /\ \A d \in GmlDocs :
              extraer_coordenadas_desde_gml(d) # None =>
                 ((extraer_coordenadas_desde_gml(d).epsg = "25830") <=> ~EsCanaria(g_ref))

(***************************************************************************)
(* The overlay with the layers                                             *)
(***************************************************************************)
\* the entries of the summary analizar_afectaciones wrote
Detectadas == a_out.json.afectaciones_detectadas

\* the answer service i gave: whether it was accepted and read, and the
\* features it holds
CapaLeida(i) ==
    /\ ~a_capas[i][1].exc /\ a_capas[i][1].status = 200
    /\ ~a_capas[i][1].body.er /\ a_capas[i][1].body.len > UmbralGml
    /\ a_capas[i][1].body.contenido.lee /\ a_capas[i][1].body.contenido.crs
    /\ a_capas[i][1].body.contenido.valida
FeaturesDe(i) == a_capas[i][1].body.contenido.features

\* the area of the parcel under the features of service i, each feature
\* counted, in thousandths of a square metre: 50 m2 a cell, 0.004 the strip
M2Bajo(i) ==
    SumSeq([k \in 1..Len(FeaturesDe(i)) |->
               Cardinality((a_parcela \cap FeaturesDe(i)[k]) \ {0}) * 50000
               + Cardinality(a_parcela \cap FeaturesDe(i)[k] \cap {0}) * 4])

ResumenEscrito == a_pc = "fin" /\ a_impl = "complete" /\ a_out.json # None

\* C13: every affectation recorded has a share of the parcel between 0 and
\* 100 percent, features that lie over each other and features in several
\* parts included.
C13_PorcentajeEnRango ==
    ResumenEscrito =>
        \A k \in 1..Len(Detectadas) :
            Detectadas[k].porcentaje_parcela >= 0 /\ Detectadas[k].porcentaje_parcela <= 10000

\* C14: the share recorded is the affected area over the parcel area times
\* 100, to two decimals, both areas measured in EPSG:25830 and never in
\* degrees: the parcel area is the parcel's square metres, the affected area
\* the square metres of the intersection rows.
C14_PorcentajeDeAreasEnMetros ==
    ResumenEscrito =>
        /\ a_out.json.area_parcela_m2 = Cardinality(a_parcela \ {0}) * 5000
        /\ \A k \in 1..Len(Detectadas) : \A i \in 1..Len(ServiciosWfs) :
              Detectadas[k].tipo = ServiciosWfs[i] =>
                 /\ 10 * Detectadas[k].area_afectada_m2 - M2Bajo(i) \in -5..5
                 /\ 2 * Detectadas[k].porcentaje_parcela * a_out.json.area_parcela_m2
                       - 2 * 1000 * M2Bajo(i)
                          \in (0 - a_out.json.area_parcela_m2)..a_out.json.area_parcela_m2

\* a parcel of 100.00 m2 half under a layer: 50.00 m2 and 50.00 percent
C14_Witness ==
    /\ ResumenEscrito /\ a_parcela = {0, 1, 2}
    /\ CapaLeida(1) /\ FeaturesDe(1) = <<{1}>>
    /\ Len(Detectadas) >= 1 /\ Detectadas[1].tipo = ServiciosWfs[1]
    /\ Detectadas[1].area_afectada_m2 = 5000 /\ Detectadas[1].porcentaje_parcela = 5000

\* C15: the overlay gives one result for each configured layer whose answer
\* was read: a layer beside the parcel is there with detected false and area
\* 0, a layer that holds the whole parcel is there with 100.00 percent.
C15_UnResultadoPorCapa ==
    ResumenEscrito =>
        \A i \in 1..Len(ServiciosWfs) :
            CapaLeida(i) =>
                \E k \in 1..Len(Detectadas) :
                    /\ Detectadas[k].tipo = ServiciosWfs[i]
                    /\ M2Bajo(i) = 0 =>
                          (~Detectadas[k].detectado /\ Detectadas[k].area_afectada_m2 = 0)
                    /\ FeaturesDe(i) = <<{0, 1, 2, 3, 4}>> =>
                          Detectadas[k].porcentaje_parcela = 10000

\* C16: in analizar_afectaciones a failure in one layer never ends the
\* analysis: every service is queried, and what the other layers gave is in
\* the summary written and returned.
C16_FalloDeCapaNoAborta ==
    (a_pc = "fin" /\ a_impl = "complete") =>
        /\ a_out.consultas = Len(ServiciosWfs)
        /\ ~a_out.raised
        /\ a_cupo >= 1 =>
              /\ a_out.json # None
              /\ \A i \in 1..Len(ServiciosWfs) :
                    (CapaLeida(i) /\ M2Bajo(i) > 0) <=>
                       (\E k \in 1..Len(Detectadas) : Detectadas[k].tipo = ServiciosWfs[i])
        /\ a_cupo >= 2 => a_out.ret = a_out.json

\* the first service never answers, the second gives a file that does not
\* read, and the affectation of the fourth is written and returned
C16_Witness ==
    /\ a_pc = "fin" /\ a_impl = "complete"
    /\ a_capas[1][DefaultMaxRetries + 1].exc
    /\ ~a_capas[2][1].exc /\ a_capas[2][1].status = 200 /\ ~a_capas[2][1].body.er
    /\ a_capas[2][1].body.len > UmbralGml /\ ~a_capas[2][1].body.contenido.lee
    /\ CapaLeida(4) /\ M2Bajo(4) > 0
    /\ a_out.ret # None /\ a_out.ret = a_out.json
    /\ \E k \in 1..Len(a_out.ret.afectaciones_detectadas) :
          a_out.ret.afectaciones_detectadas[k].tipo = ServiciosWfs[4]

\* C17: in VectorAnalyzer.ejecutar_analisis_completo a layer file that fails
\* to load, reproject or intersect never ends the analysis: with the parcel
\* read and room on the disk, the results of the other layers are written to
\* the afecciones_info summary and returned.
C17_FalloDeCapaNoAbortaVector ==
    (a_pc = "fin" /\ a_impl = "vector" /\ a_lee /\ a_cupo > Len(a_capas)) =>
        /\ ~a_out.raised
        /\ a_out.json # None /\ a_out.ret # None
        /\ \A i \in 1..Len(a_capas) :
              (a_capas[i].lee /\ a_capas[i].crs /\ a_capas[i].valida) =>
                 \E k \in 1..Len(a_out.json.capas) : a_out.json.capas[k].capa = NombresCapas[i]

(***************************************************************************)
(* Map images                                                              *)
(***************************************************************************)
\* C18: within one run, the map images asked for at the same zoom all use
\* one bounding box and the same pixel width and height.
C18_MismoBboxPorZoom ==
    \A j, k \in 1..Len(w_peticiones) :
        w_peticiones[j].zoom = w_peticiones[k].zoom =>
            /\ w_peticiones[j].params.BBOX = w_peticiones[k].params.BBOX
            /\ w_peticiones[j].params.WIDTH = w_peticiones[k].params.WIDTH
            /\ w_peticiones[j].params.HEIGHT = w_peticiones[k].params.HEIGHT

\* a run of the downloader that asked for its four layers and wrote the
\* cadastral lines and the orthophoto
C18_Witness ==
    /\ w_pc = "fin" /\ w_impl = "complete"
    /\ Len(w_peticiones) = Len(CapasWms)
    /\ w_peticiones[1].params.LAYERS # w_peticiones[2].params.LAYERS
    /\ {"catastro", "ortofoto"} \subseteq w_descargadas

(***************************************************************************)
(* The return value of a run                                               *)
(***************************************************************************)
\* C19: the value descargar_todo_completo returns enumerates the outcome of
\* every step, so that a caller can tell a full success, a partial success
\* and a total failure apart.
C19_RetornoEnumeraPasos ==
    pc = "retorno" =>
        \A k \in DOMAIN resultados : k \in DOMAIN retorno /\ retorno[k] = resultados[k]

(***************************************************************************)
(* The provenance of the coordinates                                       *)
(***************************************************************************)
\* the tag a coordinates dict carries under 'src' or 'source', "" without one
Etiqueta(c) ==
    IF "src" \in DOMAIN c THEN c.src ELSE IF "source" \in DOMAIN c THEN c.source ELSE ""

\* the tags that name a source
EtiquetasDe(fuente) ==
    CASE fuente = "GML" -> {"referencePoint", "centroid", "GML_EXTRACT"}
      [] fuente = "JSON" -> {"JSON"}
      [] fuente = "XML" -> {"XML"}

\* C20: whenever the resolution gives coordinates they carry a provenance
\* tag, and the tag names the source that gave them: the geometry file, the
\* JSON lookup or the XML lookup.
C20_EtiquetaDeProcedencia ==
    (c_pc = "fin" /\ c_impl \in {"complete", "engine"} /\ c_out.coords # None) =>
        Etiqueta(c_out.coords) \in EtiquetasDe(c_out.consultas[Len(c_out.consultas)].fuente)

\* the engine alone: its three sources tag what they give
C20_EtiquetaEnEngine ==
    (c_pc = "fin" /\ c_impl = "engine" /\ c_out.coords # None) =>
        Etiqueta(c_out.coords) \in EtiquetasDe(c_out.consultas[Len(c_out.consultas)].fuente)

(***************************************************************************)
(* The minimum size of a geometry                                          *)
(***************************************************************************)
\* C23: both geometry fetches of the downloader apply the minimum-size rule:
\* an answer no longer than the threshold is a failure, nothing is written
\* and None is returned, even with status 200 and no exception marker.
C23_MinimoEnAmbasDescargas ==
    (/\ g_pc = "fin" /\ g_fn \in {"parcela", "edificio"}
     /\ ~GeomRespuesta.exc /\ GeomRespuesta.body.len <= UmbralGml) =>
        (~g_out.ret /\ g_out.escritos = {})

\* the building fetch alone applies it
C23_MinimoEnEdificio ==
    (/\ g_pc = "fin" /\ g_fn = "edificio"
     /\ ~GeomRespuesta.exc /\ GeomRespuesta.body.len <= UmbralGml) =>
        (~g_out.ret /\ g_out.escritos = {})


\* C24: no result of either overlay implementation marks a layer as
\* detected or affected while the area it reports for it is 0: every entry of
\* afectaciones_detectadas has a positive area_afectada_m2, and every result
\* of the vector analysis with afectado has a positive area_m2.
C24_DetectadoConAreaPositiva ==
    /\ ResumenEscrito =>
          \A k \in 1..Len(Detectadas) :
             Detectadas[k].detectado => Detectadas[k].area_afectada_m2 > 0
    /\ (a_pc = "fin" /\ a_impl = "vector" /\ a_lee /\ ~a_out.raised) =>
          \A k \in 1..Len(a_out.ret.results) :
             a_out.ret.results[k].afectado => a_out.ret.results[k].area_m2 > 0

\* the same for layers that cover more than half a hundredth of a square
\* metre of the parcel
C24_AreaPositivaSinFranjas ==
    /\ ResumenEscrito =>
          \A k \in 1..Len(Detectadas) : \A i \in 1..Len(ServiciosWfs) :
             (Detectadas[k].tipo = ServiciosWfs[i] /\ M2Bajo(i) >= 5) =>
                 Detectadas[k].area_afectada_m2 > 0


(***************************************************************************)
(* The steps of a run                                                      *)
(***************************************************************************)
\* C28: without GeoPandas a run never reports overall success: the overlay
\* and the SIGPAC step are recorded as failed without being attempted (no
\* overlay service is queried), so the tally never reaches the total, in the
\* value returned and in the map of procesar_lote.
C28_SinGeopandasNuncaExito ==
    ~GEOPANDAS_AVAILABLE =>
        /\ pc # "servicios"
        /\ pc \in {"zip", "resumen", "retorno"} =>
              (~resultados["analisis_afectaciones"] /\ ~resultados["pdf_sigpac"])
        /\ pc = "retorno" => ~retorno.exito
        /\ \A r \in DOMAIN lote : ~lote[r].exito

\* a run without GeoPandas in which every other step succeeded
C28_Witness ==
    /\ pc = "retorno" /\ ~GEOPANDAS_AVAILABLE /\ ~retorno.exito
    /\ \A k \in DOMAIN resultados :
          k \notin {"analisis_afectaciones", "pdf_sigpac"} => resultados[k]
    /\ "capas_wms" \in DOMAIN resultados


\* C22: when the coordinate resolution yields nothing the map images are
\* skipped as a whole: the loop over the WMS layers is never entered, no
\* result is recorded for the step, and no image or composite is written.
C22_SinCoordenadasSinImagenes ==
    (pc \in {"capas", "edificio", "ficha", "afectaciones", "servicios", "sigpac", "zip",
             "resumen", "retorno"} /\ coords = None) =>
        /\ pc # "capas" /\ capas_pendientes = <<>> /\ capas_descargadas = {}
        /\ "capas_wms" \notin DOMAIN resultados
        /\ pc = "edificio" => escritos = {}

\* a run that reached the building geometry without coordinates
C22_Witness ==
    /\ pc = "ficha" /\ coords = None /\ resultados["parcela_gml"]
    /\ "capas_wms" \notin DOMAIN resultados

\* the same in the loops of both modules, by the requests sent: without
\* coordinates none is sent and no image is kept
C22_SinCoordenadasSinPeticiones ==
    w_coords = None => (w_peticiones = <<>> /\ w_descargadas = {} /\ w_pc # "capas")


\* the order of the steps of descargar_todo_completo, as the pairs of
\* consecutive positions of a run; the loops of steps 4 and 7 stay in place
Sucesion ==
    { <<"lote", "carpetas">>, <<"carpetas", "consulta">>, <<"carpetas", "excepcion">>,
      <<"consulta", "parcela">>, <<"parcela", "coordenadas">>,
      <<"coordenadas", "capas">>, <<"coordenadas", "edificio">>, <<"capas", "edificio">>,
      <<"edificio", "ficha">>, <<"ficha", "afectaciones">>,
      <<"afectaciones", "servicios">>, <<"afectaciones", "sigpac">>,
      <<"servicios", "sigpac">>, <<"sigpac", "zip">>, <<"zip", "resumen">>,
      <<"resumen", "retorno">>, <<"retorno", "lote">>, <<"lote", "fin">> }

\* the steps whose outcome is recorded in every run before the bundle is made
PasosAntesDelZip ==
    {"consulta_descriptiva", "parcela_gml", "edificio_gml", "ficha_catastral",
     "analisis_afectaciones", "pdf_sigpac"}

C25_CoordenadasUnaVez ==
    (pc = "zip" /\ GEOPANDAS_AVAILABLE) => coords_sigpac = coords


(***************************************************************************)
(* Two runs side by side                                                   *)
(***************************************************************************)
\* C26: runs for two different reference strings never touch the same
\* files, in any interleaving: what one has written (its tree and its ZIP)
\* is disjoint from what the other has written or read into its ZIP.
C26_RunsDisjuntos ==
    \A i, j \in DOMAIN p_pc :
       i # j => p_escritos[i] \cap (p_escritos[j] \cup p_leidos[j]) = {}

\* the same for two strings whose normalised forms differ and are not empty
C26_DisjuntosSiRefsDistintas ==
    \A i, j \in DOMAIN p_pc :
       (i # j /\ ParRef(i) # ParRef(j) /\ ParRef(i) # <<>> /\ ParRef(j) # <<>>) =>
           p_escritos[i] \cap (p_escritos[j] \cup p_leidos[j]) = {}


(***************************************************************************)
(* The status a whole call returns                                         *)
(***************************************************************************)
\* C27: obtener_datos_catastrales never returns status "success" when the
\* coordinates could not be resolved: no success record carries null
\* coordinates (and the placeholder geometry drawn without them).
C27_SinCoordenadasNoHayExito ==
    (c_pc = "datos" /\ c_impl = "urban" /\ c_out.status = "success") =>
        (c_out.coords # None /\ c_out.geometria # "madrid")

\* the same for the engine, which answers "error_coords"
C27_SinCoordenadasNoHayExitoEngine ==
    (c_pc = "datos" /\ c_impl = "engine" /\ c_out.status = "success") => c_out.coords # None


(***************************************************************************)
(* The local orthophotos                                                   *)
(***************************************************************************)
\* the image on disk behind the url of an entry
ImagenDe(e) ==
    {i \in o_disco : i.archivo.ref = e.url.outputs /\ i.archivo.name = e.url.ortophotos}

\* C30: for every entry generar_ortofotos_multi_escala returns, the "buffer"
\* it reports is the buffer the image behind its url was drawn with, and the
\* three scales give three different image files.
C30_BufferDeLaImagen ==
    o_pc = "fin" =>
        /\ \A k \in 1..Len(o_ortophotos) :
              \A i \in ImagenDe(o_ortophotos[k]) : i.buffer = o_ortophotos[k].buffer
        /\ \A k, l \in 1..Len(o_ortophotos) :
              k # l => o_ortophotos[k].url # o_ortophotos[l].url

\* the three scales give three different image files, and every entry has
\* its image on disk
C30_TresArchivosDistintos ==
    o_pc = "fin" =>
        /\ \A k \in 1..Len(o_ortophotos) : ImagenDe(o_ortophotos[k]) # {}
        /\ \A k, l \in 1..Len(o_ortophotos) :
              k # l => o_ortophotos[k].url # o_ortophotos[l].url


(***************************************************************************)
(* The requests of a run                                                   *)
(***************************************************************************)
\* C29: a run makes at most 18 safe_get calls, each of at most
\* 1 + max_retries attempts, so at most 54 request attempts, whatever the
\* failures and the answers; and, every request returning or timing out, the
\* run reaches its bundle step.
C29_CotaDePeticiones ==
    /\ [](/\ k_llamadas <= 18
          /\ k_intentos <= (DefaultMaxRetries + 1) * k_llamadas
          /\ k_intentos <= 54)
    /\ <>(k_pc = "zip")

\* a run that made the 18 calls with three attempts each
C29_Witness ==
    k_pc = "zip" /\ k_llamadas = 18 /\ k_intentos = 54

================================================================================
